---- MODULE Spec2Model ----
(***************************************************************************)
(* Admission-control simulator of experiments/ab_simulator: the            *)
(* concurrency controllers, the token-bucket nodes, the bucket allocators  *)
(* and the tick loops of the drivers.                                      *)
(*                                                                         *)
(* Conventions.  Virtual time is counted in ticks of dt = 0.02 s, so one   *)
(* second is TicksPerSec ticks and every timestamp of the model lies on    *)
(* the tick grid.  Python floats are modelled by exact arithmetic:         *)
(*   - node budgets are held in units of 1/TokenScale token, in which the  *)
(*     refill of one tick is the integer `limit`;                          *)
(*   - the AIMD window and threshold are held in units of 1/CwndScale      *)
(*     (binary fixed point), products being truncated to that unit;        *)
(*   - fractions compared with a threshold are compared cross-multiplied.  *)
(***************************************************************************)
EXTENDS Integers, Sequences, FiniteSets, TLC

VARIABLES
    driver,            \* which tick loop runs: "run_simulation", ...
    params,            \* the other arguments of the driver
    reqs,              \* the input request sequence
    controller,        \* the controller object (run_simulation)
    allocator,         \* the bucket allocator object (run_one)
    policy,            \* the policy object (run_engine, run_sim)
    nodes,             \* node index -> NodeState / Node object
    queue,             \* deque of arrived, not yet started requests
    inflight,          \* list of Inflight records
    idx,               \* number of requests already enqueued
    now,               \* virtual time, in ticks
    pc,                \* position in the body of the tick loop
    cap,               \* local `cap` of the tick
    total_inflight,    \* local `total_inflight` of the tick
    accepted,
    rejected,
    rejected_reason,   \* defaultdict(int): reason -> count
    sec_cursor,
    sec_accepted,
    sec_rejected,
    sec_burst,
    sec_ratelimit,
    sec_lat,           \* latencies of the current second, in ticks
    sec_ttft,
    simulated_gc_counter,
    young_heap,
    per_sec,           \* the time series
    window_tick,       \* `window_tick` of run_one, `tick` of run_engine
    probe              \* result of the last direct call of a method

simVars == <<driver, params, reqs, nodes, queue, inflight, idx, now, pc, cap,
             total_inflight, accepted, rejected, rejected_reason, sec_cursor,
             sec_accepted, sec_rejected, sec_burst, sec_ratelimit, sec_lat,
             sec_ttft, simulated_gc_counter, young_heap, per_sec,
             window_tick>>

vars == <<simVars, controller, allocator, policy, probe>>

\* `probe` before any direct call
NoProbe == [op |-> "none"]

\* the value of `controller`, `allocator` or `policy` when a run has none
NoObject == [kind |-> "none"]

\* the locals of a tick loop when no tick loop runs
SimIdle(d) ==
    /\ driver = d
    /\ params = NoObject
    /\ reqs = <<>>
    /\ queue = <<>>
    /\ inflight = <<>>
    /\ idx = 0
    /\ now = 0
    /\ pc = "idle"
    /\ cap = 0
    /\ total_inflight = 0
    /\ accepted = 0
    /\ rejected = 0
    /\ rejected_reason = <<>>
    /\ sec_cursor = 0
    /\ sec_accepted = 0
    /\ sec_rejected = 0
    /\ sec_burst = 0
    /\ sec_ratelimit = 0
    /\ sec_lat = <<>>
    /\ sec_ttft = <<>>
    /\ simulated_gc_counter = 0
    /\ young_heap = 0
    /\ per_sec = <<>>
    /\ window_tick = 0

----------------------------------------------------------------------------
(* Arithmetic helpers *)

Min(a, b) == IF a <= b THEN a ELSE b

Max(a, b) == IF a >= b THEN a ELSE b

\* fixed-point unit of cwnd / ssthresh / ai_step
CwndScale == 2 ^ 10

\* int(x) of a non-negative fixed-point value
IntOf(fp) == fp \div CwndScale

\* x * (pct / 100) on fixed-point x, truncated to the unit
MulPct(fp, pct) == (fp * pct) \div 100

----------------------------------------------------------------------------
(* Window metrics handed to controller.update: the two fractions are kept  *)
(* as numerator over `total`, p95 latency in ms, gc_freq as a count.       *)

Metrics(rate_reject, burst_reject, total, p95_ms, gc) ==
    [rate_num |-> rate_reject, burst_num |-> burst_reject, total |-> total,
     p95_latency_ms |-> p95_ms, gc_freq |-> gc]

\* num/total > permille/1000
FracAbove(num, total, permille) == num * 1000 > permille * total

----------------------------------------------------------------------------
(* Controllers *)

FixedController(fixed_limit) ==
    [kind |-> "Fixed", limit |-> fixed_limit,
     min_c |-> fixed_limit, max_c |-> fixed_limit,
     cwnd |-> fixed_limit * CwndScale, ssthresh |-> 0, cooldown |-> 0,
     decrease_pct |-> 100, cooldown_windows |-> 0,
     rate_limit_permille |-> 0, burst_permille |-> 0,
     p95_threshold_ms |-> 0, gc_threshold_x10 |-> 0,
     slow_start_pct |-> 100, ai_step |-> 0]

\* AimdController.__init__: ssthresh = 32, cooldown = 0; the thresholds and
\* factors are the literals of AimdController.update.
AimdController(min_c, max_c, init_c) ==
    [kind |-> "Aimd", limit |-> 0,
     min_c |-> min_c, max_c |-> max_c,
     cwnd |-> init_c * CwndScale, ssthresh |-> 32 * CwndScale, cooldown |-> 0,
     decrease_pct |-> 70, cooldown_windows |-> 2,
     rate_limit_permille |-> 60, burst_permille |-> 30,
     p95_threshold_ms |-> 2200, gc_threshold_x10 |-> 40,
     slow_start_pct |-> 150, ai_step |-> CwndScale]

\* TunableAimdController.__init__(p: AimdParams); p is the record of
\* parameters (factors in percent, ai_step in fixed point).
TunableAimdController(p) ==
    [kind |-> "Tunable", limit |-> 0,
     min_c |-> p.min_c, max_c |-> p.max_c,
     cwnd |-> p.init_c * CwndScale, ssthresh |-> p.ssthresh * CwndScale,
     cooldown |-> 0,
     decrease_pct |-> p.decrease_pct, cooldown_windows |-> p.cooldown_windows,
     rate_limit_permille |-> p.rate_limit_permille,
     burst_permille |-> p.burst_permille,
     p95_threshold_ms |-> p.p95_threshold_ms,
     gc_threshold_x10 |-> p.gc_threshold_x10,
     slow_start_pct |-> p.slow_start_pct, ai_step |-> p.ai_step]

\* TunedAimdController.__init__(params: dict)
TunedAimdController(p) ==
    [TunableAimdController(p) EXCEPT !.kind = "Tuned"]

CurrentLimitUnclamped(c) ==
    IF c.kind = "Fixed" THEN c.limit ELSE IntOf(c.cwnd)

\* current_limit() of the four controller classes
CurrentLimit(c) ==
    IF c.kind = "Fixed"
    THEN c.limit
    ELSE Max(c.min_c, Min(c.max_c, IntOf(c.cwnd)))

\* the `congested` disjunction of the three update() methods
Congested(c, m) ==
    \/ FracAbove(m.rate_num, m.total, c.rate_limit_permille)
    \/ FracAbove(m.burst_num, m.total, c.burst_permille)
    \/ m.p95_latency_ms > c.p95_threshold_ms
    \/ m.gc_freq * 10 > c.gc_threshold_x10

\* AimdController.update without the early return of the cooldown branch:
\* the cooldown is decremented and the adaptation runs all the same
AimdUpdateEager(c, m) ==
    LET d == IF c.cooldown > 0 THEN [c EXCEPT !.cooldown = c.cooldown - 1]
             ELSE c
    IN  IF Congested(d, m)
        THEN LET ss == Max(d.min_c, IntOf(MulPct(d.cwnd, 70))) * CwndScale
             IN  [d EXCEPT !.ssthresh = ss,
                           !.cwnd = Max(d.min_c * CwndScale, ss),
                           !.cooldown = 2]
        ELSE IF d.cwnd < d.ssthresh
        THEN [d EXCEPT !.cwnd = Min(d.max_c * CwndScale, MulPct(d.cwnd, 150))]
        ELSE [d EXCEPT !.cwnd = Min(d.max_c * CwndScale, d.cwnd + CwndScale)]

\* AimdController.update
\* variant: the additive branch does not grow the window
AimdUpdateStalled(c, m) ==
    IF c.cooldown > 0
    THEN [c EXCEPT !.cooldown = c.cooldown - 1]
    ELSE IF Congested(c, m)
    THEN LET ss == Max(c.min_c, IntOf(MulPct(c.cwnd, 70))) * CwndScale
         IN  [c EXCEPT !.ssthresh = ss,
                       !.cwnd = Max(c.min_c * CwndScale, ss),
                       !.cooldown = 2]
    ELSE IF c.cwnd < c.ssthresh
    THEN [c EXCEPT !.cwnd = Min(c.max_c * CwndScale, MulPct(c.cwnd, 150))]
    ELSE [c EXCEPT !.cwnd = Min(c.max_c * CwndScale, c.cwnd)]

AimdUpdate(c, m) ==
    IF c.cooldown > 0
    THEN [c EXCEPT !.cooldown = c.cooldown - 1]
    ELSE IF Congested(c, m)
    THEN LET ss == Max(c.min_c, IntOf(MulPct(c.cwnd, 70))) * CwndScale
         IN  [c EXCEPT !.ssthresh = ss,
                       !.cwnd = Max(c.min_c * CwndScale, ss),
                       !.cooldown = 2]
    ELSE IF c.cwnd < c.ssthresh
    THEN [c EXCEPT !.cwnd = Min(c.max_c * CwndScale, MulPct(c.cwnd, 150))]
    ELSE [c EXCEPT !.cwnd = Min(c.max_c * CwndScale, c.cwnd + CwndScale)]

\* TunableAimdController.update
TunableAimdUpdate(c, m) ==
    IF c.cooldown > 0
    THEN [c EXCEPT !.cooldown = c.cooldown - 1]
    ELSE IF Congested(c, m)
    THEN LET ss == Max(c.min_c * CwndScale, MulPct(c.cwnd, c.decrease_pct))
         IN  [c EXCEPT !.ssthresh = ss,
                       !.cwnd = Max(c.min_c * CwndScale, ss),
                       !.cooldown = c.cooldown_windows]
    ELSE IF c.cwnd < c.ssthresh
    THEN [c EXCEPT !.cwnd = Min(c.max_c * CwndScale,
                                MulPct(c.cwnd, c.slow_start_pct))]
    ELSE [c EXCEPT !.cwnd = Min(c.max_c * CwndScale, c.cwnd + c.ai_step)]

\* TunedAimdController.update
TunedAimdUpdate(c, m) ==
    IF c.cooldown > 0
    THEN [c EXCEPT !.cooldown = c.cooldown - 1]
    ELSE IF Congested(c, m)
    THEN LET ss == Max(c.min_c * CwndScale, MulPct(c.cwnd, c.decrease_pct))
         IN  [c EXCEPT !.ssthresh = ss,
                       !.cwnd = Max(c.min_c * CwndScale, ss),
                       !.cooldown = c.cooldown_windows]
    ELSE IF c.cwnd < c.ssthresh
    THEN [c EXCEPT !.cwnd = Min(c.max_c * CwndScale,
                                MulPct(c.cwnd, c.slow_start_pct))]
    ELSE [c EXCEPT !.cwnd = Min(c.max_c * CwndScale, c.cwnd + c.ai_step)]

\* controller.update(second, window_metrics), dispatched on the class
ControllerUpdate(c, m) ==
    CASE c.kind = "Fixed" -> c
      [] c.kind = "Aimd" -> AimdUpdate(c, m)
      [] c.kind = "Tunable" -> TunableAimdUpdate(c, m)
      [] c.kind = "Tuned" -> TunedAimdUpdate(c, m)

----------------------------------------------------------------------------
(* Time and budget units *)

\* ticks per virtual second: dt = 0.02
TicksPerSec == 50

\* node budgets are counted in 1/TokenScale token: one tick refills
\* dt * (limit / 60) token = limit units
TokenScale == 60 * TicksPerSec

\* milliseconds of a duration given in ticks
MsOf(ticks) == ticks * (1000 \div TicksPerSec)

----------------------------------------------------------------------------
(* NodeState (ab_test_simulator) *)

\* NodeState.__post_init__; burst_rps_limit is a float, held in halves
NodeState(node_id, rpm_limit, tpm_limit, max_physical_concurrency, burst_rps_limit_x2) ==
    [node_id |-> node_id, rpm_limit |-> rpm_limit, tpm_limit |-> tpm_limit,
     max_physical_concurrency |-> max_physical_concurrency,
     burst_rps_limit_x2 |-> burst_rps_limit_x2,
     inflight |-> 0,
     rpm_tokens |-> rpm_limit * TokenScale,
     tpm_tokens |-> tpm_limit * TokenScale,
     last_refill_ts |-> 0,
     starts_window |-> <<>>]

\* variant: a timestamp exactly 1 s old is evicted too
RECURSIVE EvictOldInclusive(_, _)
EvictOldInclusive(w, t) ==
    IF w # <<>> /\ Head(w) <= t - TicksPerSec
    THEN EvictOldInclusive(Tail(w), t)
    ELSE w

\* the popleft loop of refill: drop the leading timestamps older than 1 s
RECURSIVE EvictOld(_, _)
EvictOld(w, t) ==
    IF w # <<>> /\ Head(w) < t - TicksPerSec
    THEN EvictOld(Tail(w), t)
    ELSE w

RefillNoClamp(n, t) ==
    LET dt == Max(0, t - n.last_refill_ts)
    IN  IF dt <= 0
        THEN n
        ELSE [n EXCEPT !.rpm_tokens = n.rpm_tokens + dt * n.rpm_limit,
                       !.tpm_tokens = n.tpm_tokens + dt * n.tpm_limit,
                       !.last_refill_ts = t,
                       !.starts_window = EvictOld(n.starts_window, t)]

\* NodeState.refill(now)
Refill(n, t) ==
    LET dt == Max(0, t - n.last_refill_ts)
    IN  IF dt <= 0
        THEN n
        ELSE [n EXCEPT
                !.rpm_tokens = Min(n.rpm_limit * TokenScale,
                                   n.rpm_tokens + dt * n.rpm_limit),
                !.tpm_tokens = Min(n.tpm_limit * TokenScale,
                                   n.tpm_tokens + dt * n.tpm_limit),
                !.last_refill_ts = t,
                !.starts_window = EvictOld(n.starts_window, t)]

StartReasonRateFirst(n, token_cost, allowed_concurrency) ==
    IF n.rpm_tokens < TokenScale
    THEN "RATE_RPM"
    ELSE IF n.tpm_tokens < token_cost * TokenScale
    THEN "RATE_TPM"
    ELSE IF n.inflight >= Min(n.max_physical_concurrency, allowed_concurrency)
    THEN "CONCURRENCY"
    ELSE IF Len(n.starts_window) * 2 >= n.burst_rps_limit_x2
    THEN "BURST"
    ELSE ""

\* variant: the budget checks are skipped
StartReasonNoRate(n, token_cost, allowed_concurrency) ==
    IF n.inflight >= Min(n.max_physical_concurrency, allowed_concurrency)
    THEN "CONCURRENCY"
    ELSE IF Len(n.starts_window) * 2 >= n.burst_rps_limit_x2
    THEN "BURST"
    ELSE ""

StartReasonNoCeiling(n, token_cost, allowed_concurrency) ==
    IF Len(n.starts_window) * 2 >= n.burst_rps_limit_x2
    THEN "BURST"
    ELSE IF n.rpm_tokens < TokenScale
    THEN "RATE_RPM"
    ELSE IF n.tpm_tokens < token_cost * TokenScale
    THEN "RATE_TPM"
    ELSE ""

\* the four checks of can_start on the refilled node; "" when all pass
StartReason(n, token_cost, allowed_concurrency) ==
    IF n.inflight >= Min(n.max_physical_concurrency, allowed_concurrency)
    THEN "CONCURRENCY"
    ELSE IF Len(n.starts_window) * 2 >= n.burst_rps_limit_x2
    THEN "BURST"
    ELSE IF n.rpm_tokens < TokenScale
    THEN "RATE_RPM"
    ELSE IF n.tpm_tokens < token_cost * TokenScale
    THEN "RATE_TPM"
    ELSE ""

\* NodeState.can_start(now, token_cost, allowed_concurrency): the node as
\* refill leaves it, and the (ok, reason) pair
CanStart(n, t, token_cost, allowed_concurrency) ==
    LET r == Refill(n, t)
        why == StartReason(r, token_cost, allowed_concurrency)
    IN  [node |-> r, ok |-> (why = ""), reason |-> why]

\* NodeState.start(now, token_cost)
Start(n, t, token_cost) ==
    [n EXCEPT !.rpm_tokens = n.rpm_tokens - TokenScale,
              !.tpm_tokens = n.tpm_tokens - token_cost * TokenScale,
              !.inflight = n.inflight + 1,
              !.starts_window = Append(n.starts_window, t)]

\* NodeState.finish()
Finish(n) ==
    IF n.inflight > 0 THEN [n EXCEPT !.inflight = n.inflight - 1] ELSE n

----------------------------------------------------------------------------
(* Requests, in-flight records, small sequence helpers *)

Request(id, arrival_ts, input_tokens, output_tokens, stream_chunks, ttft_delay_sec, service_time_sec) ==
    [id |-> id, arrival_ts |-> arrival_ts, input_tokens |-> input_tokens,
     output_tokens |-> output_tokens, stream_chunks |-> stream_chunks,
     ttft_delay_sec |-> ttft_delay_sec, service_time_sec |-> service_time_sec,
     is_long |-> FALSE]

\* Request.total_tokens
TotalTokens(r) == r.input_tokens + r.output_tokens

Inflight(req, start_ts, finish_ts, node_id) ==
    [req |-> req, start_ts |-> start_ts, finish_ts |-> finish_ts,
     node_id |-> node_id]

Range(f) == {f[i] : i \in DOMAIN f}

RECURSIVE SumSeq(_)
SumSeq(xs) == IF xs = <<>> THEN 0 ELSE Head(xs) + SumSeq(Tail(xs))

\* sum(n.inflight for n in nodes)
SumInflight(ns) == SumSeq([i \in DOMAIN ns |-> ns[i].inflight])

\* defaultdict(int): d[k] += 1
Bump(d, k) ==
    IF k \in DOMAIN d
    THEN [d EXCEPT ![k] = d[k] + 1]
    ELSE [x \in DOMAIN d \cup {k} |-> IF x = k THEN 1 ELSE d[x]]

\* d[k] of a defaultdict(int) read without inserting
Count(d, k) == IF k \in DOMAIN d THEN d[k] ELSE 0

\* insertion of x into the ascending sequence xs, after its equals
RECURSIVE InsertSorted(_, _)
InsertSorted(xs, x) ==
    IF xs = <<>> THEN <<x>>
    ELSE IF x < Head(xs) THEN <<x>> \o xs
    ELSE <<Head(xs)>> \o InsertSorted(Tail(xs), x)

\* sorted(values)
RECURSIVE Sorted(_)
Sorted(xs) ==
    IF xs = <<>> THEN <<>>
    ELSE InsertSorted(Sorted(SubSeq(xs, 1, Len(xs) - 1)), xs[Len(xs)])

\* ab_test_simulator.percentile: index ceil(p/100 * n) - 1, clamped
Percentile(values, p) ==
    IF values = <<>> THEN 0
    ELSE LET arr == Sorted(values)
             k == Min(Len(arr) - 1,
                      Max(0, ((p * Len(arr) + 99) \div 100) - 1))
         IN  arr[k + 1]

----------------------------------------------------------------------------
(* Phases of one iteration of the tick loop *)

\* while idx < len(reqs) and reqs[idx].arrival_ts <= now: the new idx
RECURSIVE ArrivedIdx(_, _, _)
ArrivedIdx(rs, i, t) ==
    IF i < Len(rs) /\ rs[i + 1].arrival_ts <= t
    THEN ArrivedIdx(rs, i + 1, t)
    ELSE i

\* variant: a request that finishes at `now` is left for the next tick
CompletedStrict(fl, t) == SelectSeq(fl, LAMBDA x : x.finish_ts < t)

\* completed = [x for x in inflight if x.finish_ts <= now]
Completed(fl, t) == SelectSeq(fl, LAMBDA x : x.finish_ts <= t)

\* variant: completed records stay in the in-flight list
StillInflightKeep(fl, t) == fl

\* the inflight list rebuilt without the completed request ids
StillInflight(fl, t) ==
    LET done_ids == {c.req.id : c \in Range(Completed(fl, t))}
    IN  SelectSeq(fl, LAMBDA x : x.req.id \notin done_ids)

\* nodes[c.node_id].finish() for every completed record, in order
RECURSIVE FinishAll(_, _)
FinishAll(ns, done) ==
    IF done = <<>> THEN ns
    ELSE LET c == Head(done)
         IN  FinishAll([ns EXCEPT ![c.node_id] = Finish(ns[c.node_id])],
                       Tail(done))

\* (finish_ts - arrival_ts) * 1000 of the completed records
LatenciesOf(done) ==
    [i \in DOMAIN done |-> MsOf(done[i].finish_ts - done[i].req.arrival_ts)]

\* (start_ts - arrival_ts + ttft_delay_sec) * 1000
TtftsOf(done) ==
    [i \in DOMAIN done |->
        MsOf(done[i].start_ts - done[i].req.arrival_ts
             + done[i].req.ttft_delay_sec)]

\* (start_ts - arrival_ts) * 1000
WaitsOf(done) ==
    [i \in DOMAIN done |-> MsOf(done[i].start_ts - done[i].req.arrival_ts)]

\* variant: the head is popped one second after its timeout
RECURSIVE ExpiredCountLate(_, _, _)
ExpiredCountLate(q, t, timeout) ==
    IF q # <<>> /\ (t - Head(q).arrival_ts) >= timeout + TicksPerSec
    THEN 1 + ExpiredCountLate(Tail(q), t, timeout)
    ELSE 0

\* variant: the timeout loop never pops the queue
ExpiredCountNone(q, t, timeout) == 0

\* while queue and (now - queue[0].arrival_ts) > timeout: how many are popped.
\* `now` is a sum of floats 0.02 and lies just above its nominal value, so
\* the test first holds at the tick where the nominal wait equals the
\* timeout: in ticks the comparison is >=.
RECURSIVE ExpiredCount(_, _, _)
ExpiredCount(q, t, timeout) ==
    IF q # <<>> /\ (t - Head(q).arrival_ts) >= timeout
    THEN 1 + ExpiredCount(Tail(q), t, timeout)
    ELSE 0

\* random.sample(nodes, k): every sequence of k distinct nodes
Samples(ns, k) ==
    {s \in [1..k -> DOMAIN ns] : \A i, j \in 1..k : i # j => s[i] # s[j]}

\* sample.sort(key=lambda n: n.inflight): stable insertion by in-flight count
RECURSIVE InsertByInflight(_, _, _)
InsertByInflight(xs, x, ns) ==
    IF xs = <<>> THEN <<x>>
    ELSE IF ns[x].inflight < ns[Head(xs)].inflight THEN <<x>> \o xs
    ELSE <<Head(xs)>> \o InsertByInflight(Tail(xs), x, ns)

\* variant: the sample is tried in the order it was drawn
SortSkipped(sample, ns) == sample

RECURSIVE SortByInflight(_, _)
SortByInflight(sample, ns) ==
    IF sample = <<>> THEN <<>>
    ELSE InsertByInflight(
             SortByInflight(SubSeq(sample, 1, Len(sample) - 1), ns),
             sample[Len(sample)], ns)

\* for node in sample: ok, reason = node.can_start(...); if ok: node.start(...)
\* Result: the nodes as the loop leaves them, the node started on (0: none),
\* the loop's fail_reason and the reasons of the nodes that refused, in order.
RECURSIVE TryNodes(_, _, _, _, _, _)
TryNodes(ns, order, t, token_cost, allowed, fail_reason) ==
    IF order = <<>>
    THEN [nodes |-> ns, started |-> 0, fail_reason |-> fail_reason,
          failed |-> <<>>]
    ELSE LET i == Head(order)
             r == CanStart(ns[i], t, token_cost, allowed)
         IN  IF r.ok
             THEN [nodes |-> [ns EXCEPT ![i] = Start(r.node, t, token_cost)],
                   started |-> i, fail_reason |-> fail_reason,
                   failed |-> <<>>]
             ELSE LET rest == TryNodes([ns EXCEPT ![i] = r.node], Tail(order),
                                       t, token_cost, allowed, r.reason)
                  IN  [rest EXCEPT !.failed = <<r.reason>> \o rest.failed]

\* young_heap after one admission, and whether it crossed the GC threshold
HeapAfter(heap, req) == heap + req.stream_chunks * 1024 + req.output_tokens * 16

GcThreshold == 3000000

GcFires(heap, req) == HeapAfter(heap, req) > GcThreshold

HeapNext(heap, req) ==
    IF GcFires(heap, req)
    THEN (HeapAfter(heap, req) * 35) \div 100
    ELSE HeapAfter(heap, req)

----------------------------------------------------------------------------
(* Inputs of the simulation runs *)

\* number of requests of an input sequence
MaxReqs == 4

\* explored horizon of a run, in ticks
MaxNow == 105

ShortReq(id, t) == Request(id, t, 1, 1, 4, 1, 3)

\* is_long is a field of the Req class of the long-ratio sweep only
LongReq(id, t) == [Request(id, t, 1, 2, 4, 2, 70) EXCEPT !.is_long = TRUE]

\* request sequences sorted by arrival: request i arrives at (i - 1) * gap;
\* the first `longs` requests are long-running, the others short
ReqInputs ==
    {[i \in 1..MaxReqs |->
         IF i <= longs THEN LongReq(i, (i - 1) * gap)
                       ELSE ShortReq(i, (i - 1) * gap)] :
       gap \in {0, 1, 30}, longs \in 0..MaxReqs}

\* node factories: scaled-down make_nodes()
NodeFactories ==
    {<<NodeState(1, 10, 100, MaxReqs, 6)>>,
     <<NodeState(1, 3, 100, 2, 8), NodeState(2, 2, 2, 1, 8)>>}

TunedParams ==
    [min_c |-> 1, max_c |-> 4, init_c |-> 3, ssthresh |-> 2,
     decrease_pct |-> 50, cooldown_windows |-> 1,
     rate_limit_permille |-> 50, burst_permille |-> 50,
     p95_threshold_ms |-> 2200, gc_threshold_x10 |-> 20,
     slow_start_pct |-> 180, ai_step |-> CwndScale]

SimControllers ==
    {FixedController(2), FixedController(MaxReqs),
     AimdController(1, MaxReqs, MaxReqs), AimdController(2, 3, 2),
     TunableAimdController(TunedParams), TunedAimdController(TunedParams)}

----------------------------------------------------------------------------
(* run_simulation *)

\* the hard-coded queue timeout of run_simulation: 1.2 s
QueueTimeoutTicks == 60

\* end_time = max(r.arrival_ts for r in reqs) + 20
EndSlackTicks == 1000

RECURSIVE MaxArrival(_)
MaxArrival(rs) ==
    IF Len(rs) = 1 THEN rs[1].arrival_ts
    ELSE Max(rs[Len(rs)].arrival_ts, MaxArrival(SubSeq(rs, 1, Len(rs) - 1)))

EndTime == MaxArrival(reqs) + EndSlackTicks

\* variant: every timeout is counted twice under its reason
RECURSIVE BumpTimesTwice(_, _, _)
BumpTimesTwice(d, k, times) ==
    IF times = 0 THEN d ELSE BumpTimesTwice(Bump(Bump(d, k), k), k, times - 1)

RECURSIVE BumpTimes(_, _, _)
BumpTimes(d, k, times) ==
    IF times = 0 THEN d ELSE BumpTimes(Bump(d, k), k, times - 1)

SimInit ==
    /\ driver = "run_simulation"
    /\ params = NoObject
    /\ reqs \in ReqInputs
    /\ nodes \in NodeFactories
    /\ controller \in SimControllers
    /\ allocator = NoObject
    /\ policy = NoObject
    /\ window_tick = 0
    /\ queue = <<>>
    /\ inflight = <<>>
    /\ idx = 0
    /\ now = 0
    /\ pc = "tick"
    /\ cap = 0
    /\ total_inflight = 0
    /\ accepted = 0
    /\ rejected = 0
    /\ rejected_reason = <<>>
    /\ sec_cursor = 0
    /\ sec_accepted = 0
    /\ sec_rejected = 0
    /\ sec_burst = 0
    /\ sec_ratelimit = 0
    /\ sec_lat = <<>>
    /\ sec_ttft = <<>>
    /\ simulated_gc_counter = 0
    /\ young_heap = 0
    /\ per_sec = <<>>
    /\ probe = NoProbe

\* the tick up to which a run is followed: MaxNow, or the end of the loop
\* for the runs that are followed to their return
Horizon == IF probe.op = "run_to_end" THEN EndTime + 1 ELSE MaxNow

AdmissionOpenInclusive(q, total, limit) == q # <<>> /\ total <= limit

\* the condition of `while queue and total_inflight < cap`
AdmissionOpen(q, total, limit) == q # <<>> /\ total < limit

\* Top of the loop body: arrivals, completions, queue timeouts, and the two
\* locals read before the admission loop.
TickBegin ==
    /\ driver = "run_simulation"
    /\ pc = "tick"
    /\ now <= EndTime
    /\ now < Horizon
    /\ LET i2 == ArrivedIdx(reqs, idx, now)
           q1 == queue \o SubSeq(reqs, idx + 1, i2)
           done == Completed(inflight, now)
           ns1 == FinishAll(nodes, done)
           k == ExpiredCount(q1, now, QueueTimeoutTicks)
       IN  /\ idx' = i2
           /\ queue' = SubSeq(q1, k + 1, Len(q1))
           /\ nodes' = ns1
           /\ inflight' = StillInflight(inflight, now)
           /\ sec_lat' = sec_lat \o LatenciesOf(done)
           /\ sec_ttft' = sec_ttft \o TtftsOf(done)
           /\ rejected' = rejected + k
           /\ sec_rejected' = sec_rejected + k
           /\ rejected_reason' = BumpTimes(rejected_reason, "QUEUE_TIMEOUT", k)
           /\ cap' = CurrentLimit(controller)
           /\ total_inflight' = SumInflight(ns1)
    /\ pc' = "admit"
    /\ UNCHANGED <<driver, params, reqs, controller, now, accepted, sec_cursor,
                   sec_accepted, sec_burst, sec_ratelimit,
                   simulated_gc_counter, young_heap, per_sec, probe,
                   allocator, policy, window_tick>>

\* One iteration of `while queue and total_inflight < cap`.
AdmitAttempt ==
    /\ driver = "run_simulation"
    /\ pc = "admit"
    /\ AdmissionOpen(queue, total_inflight, cap)
    /\ \E sample \in Samples(nodes, Min(3, Len(nodes))) :
         LET req == Head(queue)
             order == SortByInflight(sample, nodes)
             r == TryNodes(nodes, order, now, TotalTokens(req), cap,
                           "CONCURRENCY")
         IN  /\ nodes' = r.nodes
             /\ IF r.started # 0
                THEN /\ inflight' = Append(inflight,
                            Inflight(req, now, now + req.service_time_sec,
                                     r.started))
                     /\ queue' = Tail(queue)
                     /\ accepted' = accepted + 1
                     /\ sec_accepted' = sec_accepted + 1
                     /\ total_inflight' = total_inflight + 1
                     /\ young_heap' = HeapNext(young_heap, req)
                     /\ simulated_gc_counter' =
                            IF GcFires(young_heap, req)
                            THEN simulated_gc_counter + 1
                            ELSE simulated_gc_counter
                     /\ pc' = "admit"
                     /\ UNCHANGED <<sec_ratelimit, sec_burst>>
                ELSE /\ sec_ratelimit' =
                            IF r.fail_reason \in {"RATE_RPM", "RATE_TPM"}
                            THEN sec_ratelimit + 1 ELSE sec_ratelimit
                     /\ sec_burst' =
                            IF r.fail_reason = "BURST"
                            THEN sec_burst + 1 ELSE sec_burst
                     /\ pc' = "rollover"
                     /\ UNCHANGED <<inflight, queue, accepted, sec_accepted,
                                    total_inflight, young_heap,
                                    simulated_gc_counter>>
    /\ UNCHANGED <<driver, params, reqs, controller, idx, now, cap, rejected,
                   rejected_reason, sec_cursor, sec_rejected, sec_lat,
                   sec_ttft, per_sec, probe, allocator, policy, window_tick>>

\* the window metrics of the second that ends
WindowMetrics ==
    Metrics(sec_ratelimit, sec_burst, Max(1, sec_accepted + sec_rejected),
            Percentile(sec_lat, 95), simulated_gc_counter)

\* variant: the record's controller_limit is read before controller.update
TickEndStaleLimit ==
    /\ driver = "run_simulation"
    /\ \/ pc = "rollover"
       \/ pc = "admit" /\ ~AdmissionOpen(queue, total_inflight, cap)
    /\ IF now >= (sec_cursor + 1) * TicksPerSec
       THEN LET c2 == ControllerUpdate(controller, WindowMetrics)
            IN  /\ controller' = c2
                /\ per_sec' = Append(per_sec,
                       [second |-> sec_cursor,
                        accepted |-> sec_accepted,
                        rejected |-> sec_rejected,
                        burst_reject |-> sec_burst,
                        rate_reject |-> sec_ratelimit,
                        p95_latency_ms |-> Percentile(sec_lat, 95),
                        p95_ttft_ms |-> Percentile(sec_ttft, 95),
                        controller_limit |-> CurrentLimit(controller),
                        sim_gc_freq |-> simulated_gc_counter])
                /\ sec_cursor' = sec_cursor + 1
                /\ sec_accepted' = 0
                /\ sec_rejected' = 0
                /\ sec_burst' = 0
                /\ sec_ratelimit' = 0
                /\ sec_lat' = <<>>
                /\ sec_ttft' = <<>>
                /\ simulated_gc_counter' = 0
       ELSE UNCHANGED <<controller, per_sec, sec_cursor, sec_accepted,
                        sec_rejected, sec_burst, sec_ratelimit, sec_lat,
                        sec_ttft, simulated_gc_counter>>
    /\ now' = now + 1
    /\ pc' = "tick"
    /\ UNCHANGED <<driver, params, reqs, nodes, queue, inflight, idx, cap,
                   total_inflight, accepted, rejected, rejected_reason,
                   young_heap, probe, allocator, policy, window_tick>>

\* End of the loop body: the per-second rollover (`while now >= sec_cursor +
\* 1.0`, which runs at most once since it runs every tick) and now += dt.
TickEnd ==
    /\ driver = "run_simulation"
    /\ \/ pc = "rollover"
       \/ pc = "admit" /\ ~AdmissionOpen(queue, total_inflight, cap)
    /\ IF now >= (sec_cursor + 1) * TicksPerSec
       THEN LET c2 == ControllerUpdate(controller, WindowMetrics)
            IN  /\ controller' = c2
                /\ per_sec' = Append(per_sec,
                       [second |-> sec_cursor,
                        accepted |-> sec_accepted,
                        rejected |-> sec_rejected,
                        burst_reject |-> sec_burst,
                        rate_reject |-> sec_ratelimit,
                        p95_latency_ms |-> Percentile(sec_lat, 95),
                        p95_ttft_ms |-> Percentile(sec_ttft, 95),
                        controller_limit |-> CurrentLimit(c2),
                        sim_gc_freq |-> simulated_gc_counter])
                /\ sec_cursor' = sec_cursor + 1
                /\ sec_accepted' = 0
                /\ sec_rejected' = 0
                /\ sec_burst' = 0
                /\ sec_ratelimit' = 0
                /\ sec_lat' = <<>>
                /\ sec_ttft' = <<>>
                /\ simulated_gc_counter' = 0
       ELSE UNCHANGED <<controller, per_sec, sec_cursor, sec_accepted,
                        sec_rejected, sec_burst, sec_ratelimit, sec_lat,
                        sec_ttft, simulated_gc_counter>>
    /\ now' = now + 1
    /\ pc' = "tick"
    /\ UNCHANGED <<driver, params, reqs, nodes, queue, inflight, idx, cap,
                   total_inflight, accepted, rejected, rejected_reason,
                   young_heap, probe, allocator, policy, window_tick>>

----------------------------------------------------------------------------
(* Bucket allocators (adaptive_bucket_ab)                                  *)
(*                                                                         *)
(* Shares are held in units of 1/ShareScale, quotients truncated to that   *)
(* unit.  Bucket budgets are held in 1/TokenScale token like the node      *)
(* budgets; a bucket's rate total * share is truncated to whole tokens per *)
(* minute.  Buckets are numbered 1..4 (0..3 in the source).  The token     *)
(* history is run-length encoded: a sequence of runs [v, n], n copies of   *)
(* the value v, oldest first.                                              *)

ShareScale == 10 ^ 4

\* deque(maxlen=12000)
HistMaxLen == 12000

\* if len(data) < 200: return
HistMinLen == 200

Buckets == 1..4

Zero4 == <<0, 0, 0, 0>>

Sum4(x) == x[1] + x[2] + x[3] + x[4]

RECURSIVE HistLen(_)
HistLen(h) == IF h = <<>> THEN 0 ELSE Head(h).n + HistLen(Tail(h))

\* drop the `k` oldest entries
RECURSIVE HistDrop(_, _)
HistDrop(h, k) ==
    IF k <= 0 \/ h = <<>> THEN h
    ELSE IF Head(h).n <= k THEN HistDrop(Tail(h), k - Head(h).n)
    ELSE <<[v |-> Head(h).v, n |-> Head(h).n - k]>> \o Tail(h)

\* token_hist.append(v), n times, on a deque of maxlen HistMaxLen
HistAppend(h, v, n) ==
    LET grown == IF n = 0 THEN h
                 ELSE IF h # <<>> /\ h[Len(h)].v = v
                 THEN [h EXCEPT ![Len(h)].n = h[Len(h)].n + n]
                 ELSE Append(h, [v |-> v, n |-> n])
    IN  HistDrop(grown, HistLen(grown) - HistMaxLen)

RECURSIVE HistCountLE(_, _)
HistCountLE(h, v) ==
    IF h = <<>> THEN 0
    ELSE (IF Head(h).v <= v THEN Head(h).n ELSE 0) + HistCountLE(Tail(h), v)

\* sorted(list(hist))[k], k counted from 0
HistKth(h, k) ==
    CHOOSE v \in {r.v : r \in Range(h)} :
        /\ HistCountLE(h, v) >= k + 1
        /\ \A w \in {r.v : r \in Range(h)} :
               HistCountLE(h, w) >= k + 1 => v <= w

\* adaptive_bucket_ab.percentile on the history: index int(p/100 * n) - 1
HistPercentile(h, p) ==
    IF HistLen(h) = 0 THEN 0
    ELSE HistKth(h, Max(0, Min(HistLen(h) - 1,
                               ((p * HistLen(h)) \div 100) - 1)))

\* adaptive_bucket_ab.percentile on a list of values
PercentileFloor(values, p) ==
    IF values = <<>> THEN 0
    ELSE LET arr == Sorted(values)
             k == Max(0, Min(Len(arr) - 1, ((p * Len(arr)) \div 100) - 1))
         IN  arr[k + 1]

\* StaticBucketAllocator.__init__
StaticBucketAllocator(total_rpm, total_tpm) ==
    [kind |-> "Static",
     boundaries |-> <<256, 1024, 4096>>,
     shares |-> <<(35 * ShareScale) \div 100, (35 * ShareScale) \div 100,
                  (20 * ShareScale) \div 100, (10 * ShareScale) \div 100>>,
     total_rpm |-> total_rpm, total_tpm |-> total_tpm,
     rpm_tokens |-> Zero4, tpm_tokens |-> Zero4, last_refill |-> 0,
     token_hist |-> <<>>,
     win_arrival |-> Zero4, win_accepted |-> Zero4, win_tokens |-> Zero4,
     win_reject |-> Zero4]

\* AdaptiveBucketAllocator.__init__
AdaptiveBucketAllocator(total_rpm, total_tpm) ==
    [StaticBucketAllocator(total_rpm, total_tpm) EXCEPT
        !.kind = "Adaptive", !.boundaries = <<300, 1200, 3800>>]

\* bucket_of(tokens)
BucketOf(boundaries, tokens) ==
    IF tokens <= boundaries[1] THEN 1
    ELSE IF tokens <= boundaries[2] THEN 2
    ELSE IF tokens <= boundaries[3] THEN 3
    ELSE 4

\* floor(x * y / d), computed without forming the product x * y
MulDiv(x, y, d) == (x \div d) * y + ((x % d) * y) \div d

\* (total * share) / 60.0 per second, as whole tokens per minute
BucketRate(total, share) == MulDiv(total, share, ShareScale)

\* min(rate * 3, tokens + dt * rate): three seconds of refill fill a bucket
BucketRefill(tokens, rate, dt) ==
    Min(rate * 3 * TicksPerSec, tokens + Min(dt, 3 * TicksPerSec) * rate)

\* StaticBucketAllocator.refill(now)
AllocRefill(a, t) ==
    LET dt == Max(0, t - a.last_refill)
    IN  IF dt <= 0 THEN a
        ELSE [a EXCEPT
                !.rpm_tokens = [i \in Buckets |->
                    BucketRefill(a.rpm_tokens[i],
                                 BucketRate(a.total_rpm, a.shares[i]), dt)],
                !.tpm_tokens = [i \in Buckets |->
                    BucketRefill(a.tpm_tokens[i],
                                 BucketRate(a.total_tpm, a.shares[i]), dt)],
                !.last_refill = t]

\* the test of can_admit on the refilled allocator
BudgetOk(a, bucket, tokens) ==
    /\ a.rpm_tokens[bucket] >= TokenScale
    /\ a.tpm_tokens[bucket] >= tokens * TokenScale

\* consume(bucket, tokens)
Consume(a, bucket, tokens) ==
    [a EXCEPT !.rpm_tokens[bucket] = a.rpm_tokens[bucket] - TokenScale,
              !.tpm_tokens[bucket] = a.tpm_tokens[bucket] - tokens * TokenScale]

\* record_arrival(tokens), n times
RecordArrival(a, tokens, n) ==
    LET b == BucketOf(a.boundaries, tokens)
    IN  [a EXCEPT !.win_arrival[b] = a.win_arrival[b] + n,
                  !.token_hist = HistAppend(a.token_hist, tokens, n)]

\* record_accept(tokens), n times
RecordAccept(a, tokens, n) ==
    LET b == BucketOf(a.boundaries, tokens)
    IN  [a EXCEPT !.win_accepted[b] = a.win_accepted[b] + n,
                  !.win_tokens[b] = a.win_tokens[b] + n * tokens]

\* record_reject(tokens), n times
RecordReject(a, tokens, n) ==
    LET b == BucketOf(a.boundaries, tokens)
    IN  [a EXCEPT !.win_reject[b] = a.win_reject[b] + n]

\* variant: the smoothed value without the clamp to the step
SmoothBoundaryRaw(old_v, new_v) == (7 * old_v + 3 * new_v) \div 10

\* AdaptiveBucketAllocator._smooth_boundary(old_v, new_v)
SmoothBoundary(old_v, new_v) ==
    LET raw == (7 * old_v + 3 * new_v) \div 10
        step == (old_v * 15) \div 100
        lo == Max(32, old_v - step)
        hi == old_v + step
    IN  Max(lo, Min(hi, raw))

\* the three smoothed boundaries computed by _update_boundaries
SmoothedBoundaries(boundaries, hist) ==
    LET p40 == HistPercentile(hist, 40)
        p75 == HistPercentile(hist, 75)
        p92 == HistPercentile(hist, 92)
    IN  <<SmoothBoundary(boundaries[1], p40),
          SmoothBoundary(boundaries[2], Max(p40 + 64, p75)),
          SmoothBoundary(boundaries[3], Max(p75 + 256, p92))>>

Increasing(b) == b[1] < b[2] /\ b[2] < b[3]

UpdateBoundariesFirstOnly(a) ==
    IF HistLen(a.token_hist) < HistMinLen THEN a
    ELSE LET b == SmoothedBoundaries(a.boundaries, a.token_hist)
         IN  IF Increasing(b)
             THEN [a EXCEPT !.boundaries[1] = b[1]]
             ELSE a

\* AdaptiveBucketAllocator._update_boundaries
UpdateBoundaries(a) ==
    IF HistLen(a.token_hist) < HistMinLen THEN a
    ELSE LET b == SmoothedBoundaries(a.boundaries, a.token_hist)
         IN  IF Increasing(b) THEN [a EXCEPT !.boundaries = b] ELSE a

\* x / (sum + eps) in share units: 0 when the sum is 0
ShareOf(x, sum) == IF sum = 0 THEN 0 ELSE (x * ShareScale) \div sum

\* the clamped score of bucket i
BucketScore(arrival, accept, tokens, reject, i) ==
    LET req_share == ShareOf(arrival[i], Sum4(arrival))
        throughput_share == ShareOf(accept[i], Sum4(accept))
        token_share == ShareOf(tokens[i], Sum4(tokens))
        risk == (reject[i] * ShareScale) \div Max(1, arrival[i])
        score == (35 * req_share + 35 * throughput_share + 20 * token_share
                  - 25 * risk) \div 100
    IN  Max(ShareScale \div 10, Min(ShareScale \div 2, score))

\* target = [x / s for x in new_shares]
ShareTargets(arrival, accept, tokens, reject) ==
    LET new_shares == [i \in Buckets |->
                          BucketScore(arrival, accept, tokens, reject, i)]
    IN  [i \in Buckets |-> (new_shares[i] * ShareScale) \div Sum4(new_shares)]

\* old + max(-0.05, min(0.05, tgt - old)) for every bucket
SteppedShares(shares, target) ==
    [i \in Buckets |->
        shares[i] + Max(0 - ShareScale \div 20,
                        Min(ShareScale \div 20, target[i] - shares[i]))]

NormalizedNot(updated) == updated

\* [x / s2 for x in updated]
Normalized(updated) ==
    [i \in Buckets |-> (updated[i] * ShareScale) \div Sum4(updated)]

\* AdaptiveBucketAllocator._update_shares
UpdateShares(a) ==
    [a EXCEPT !.shares =
        Normalized(SteppedShares(a.shares,
            ShareTargets(a.win_arrival, a.win_accepted, a.win_tokens,
                         a.win_reject)))]

\* on_window_end() of the two allocator classes
OnWindowEnd(a) ==
    IF a.kind = "Static" THEN a
    ELSE [UpdateShares(UpdateBoundaries(a)) EXCEPT
            !.win_arrival = Zero4, !.win_accepted = Zero4,
            !.win_tokens = Zero4, !.win_reject = Zero4]

----------------------------------------------------------------------------
(* Policies of full_pipeline_vs_traditional                                *)
(*                                                                         *)
(* alpha is held in units of 1/AlphaScale and est_ratio_ema in units of    *)
(* 1/EmaScale, products truncated to the unit.                             *)

AlphaScale == 10 ^ 4

EmaScale == 10 ^ 3

\* TraditionalPolicy.__init__
TraditionalPolicy(fixed_limit) ==
    [kind |-> "Traditional", fixed_limit |-> fixed_limit]

\* FullPipelinePolicy.__init__
FullPipelinePolicy(total_rpm, total_tpm, fixed_limit) ==
    [kind |-> "FullPipeline",
     fixed_limit |-> fixed_limit,
     total_rpm |-> total_rpm, total_tpm |-> total_tpm,
     alpha |-> AlphaScale,
     boundaries |-> <<300, 1200, 3800>>,
     shares |-> <<(35 * ShareScale) \div 100, (35 * ShareScale) \div 100,
                  (20 * ShareScale) \div 100, (10 * ShareScale) \div 100>>,
     rpm_tokens |-> Zero4, tpm_tokens |-> Zero4, last_refill |-> 0,
     hist_tokens |-> <<>>,
     win_arrival |-> Zero4, win_accept |-> Zero4, win_tokens |-> Zero4,
     win_reject |-> Zero4,
     est_ratio_ema |-> EmaScale]

\* req.input_tokens + int(req.output_tokens * 0.85)
BaseEstimate(req) == req.input_tokens + (req.output_tokens * 85) \div 100

\* the value returned by estimate_tokens(req)
EstimateOf(p, req) ==
    IF p.kind = "Traditional" THEN TotalTokens(req)
    ELSE Max(1, (BaseEstimate(req) * p.est_ratio_ema * 108)
                    \div (EmaScale * 100))

\* estimate_tokens(req), n times: the state it leaves
EstimateTokens(p, req, n) ==
    IF p.kind = "Traditional" THEN p
    ELSE LET est == EstimateOf(p, req)
             b == BucketOf(p.boundaries, est)
         IN  [p EXCEPT !.hist_tokens = HistAppend(p.hist_tokens, est, n),
                       !.win_arrival[b] = p.win_arrival[b] + n]

\* FullPipelinePolicy._refill(now)
PolicyRefill(p, t) ==
    LET dt == Max(0, t - p.last_refill)
        eff_rpm == MulDiv(p.total_rpm, p.alpha, AlphaScale)
        eff_tpm == MulDiv(p.total_tpm, p.alpha, AlphaScale)
    IN  IF dt <= 0 THEN p
        ELSE [p EXCEPT
                !.rpm_tokens = [i \in Buckets |->
                    BucketRefill(p.rpm_tokens[i],
                                 BucketRate(eff_rpm, p.shares[i]), dt)],
                !.tpm_tokens = [i \in Buckets |->
                    BucketRefill(p.tpm_tokens[i],
                                 BucketRate(eff_tpm, p.shares[i]), dt)],
                !.last_refill = t]

\* admit(now, est_tokens): the policy it leaves and the value it returns
Admit(p, t, est_tokens) ==
    IF p.kind = "Traditional" THEN [policy |-> p, ok |-> TRUE]
    ELSE LET q == PolicyRefill(p, t)
             b == BucketOf(q.boundaries, est_tokens)
         IN  IF /\ q.rpm_tokens[b] >= TokenScale
                /\ q.tpm_tokens[b] >= est_tokens * TokenScale
             THEN [policy |->
                      [q EXCEPT
                         !.rpm_tokens[b] = q.rpm_tokens[b] - TokenScale,
                         !.tpm_tokens[b] =
                             q.tpm_tokens[b] - est_tokens * TokenScale,
                         !.win_accept[b] = q.win_accept[b] + 1,
                         !.win_tokens[b] = q.win_tokens[b] + est_tokens],
                   ok |-> TRUE]
             ELSE [policy |-> [q EXCEPT !.win_reject[b] = q.win_reject[b] + 1],
                   ok |-> FALSE]

\* on_result(req, accepted)
OnResult(p, req, ok) ==
    IF p.kind = "Traditional" \/ ~ok THEN p
    ELSE LET est == Max(1, BaseEstimate(req))
             ratio == (TotalTokens(req) * EmaScale) \div est
         IN  [p EXCEPT !.est_ratio_ema = (9 * p.est_ratio_ema + ratio) \div 10]

\* FullPipelinePolicy._smooth_boundary(old, new)
PolicySmoothBoundary(old, new) ==
    LET raw == (7 * old + 3 * new) \div 10
        step == (old * 15) \div 100
    IN  Max(old - step, Min(old + step, raw))

\* b1, b2, b3 of _rebalance_buckets
PolicySmoothedBoundaries(boundaries, hist) ==
    LET p40 == HistPercentile(hist, 40)
        p75 == HistPercentile(hist, 75)
        p92 == HistPercentile(hist, 92)
    IN  <<PolicySmoothBoundary(boundaries[1], p40),
          PolicySmoothBoundary(boundaries[2], Max(p40 + 64, p75)),
          PolicySmoothBoundary(boundaries[3], Max(p75 + 256, p92))>>

\* FullPipelinePolicy._rebalance_buckets
RebalanceBuckets(p) ==
    IF HistLen(p.hist_tokens) < HistMinLen THEN p
    ELSE LET b == PolicySmoothedBoundaries(p.boundaries, p.hist_tokens)
         IN  [p EXCEPT
                !.boundaries = IF Increasing(b) THEN b ELSE p.boundaries,
                !.shares = Normalized(SteppedShares(p.shares,
                    ShareTargets(p.win_arrival, p.win_accept, p.win_tokens,
                                 p.win_reject))),
                !.win_arrival = Zero4, !.win_accept = Zero4,
                !.win_tokens = Zero4, !.win_reject = Zero4]

\* the window metrics handed to on_window
PolicyMetrics(p95_ttft_ms, sim_gc_freq, s_rej, s_acc) ==
    [p95_ttft_ms |-> p95_ttft_ms, sim_gc_freq |-> sim_gc_freq,
     reject_num |-> s_rej, total |-> Max(1, s_acc + s_rej)]

\* the alpha left by on_window(metrics)
\* variant: no floor and no ceiling
NextAlphaUnclamped(alpha, m) ==
    IF \/ m.p95_ttft_ms > 1400
       \/ m.sim_gc_freq * 10 > 18
       \/ m.reject_num * 100 > 50 * m.total
    THEN (alpha * 92) \div 100
    ELSE IF /\ m.p95_ttft_ms < 1150
            /\ m.sim_gc_freq * 10 < 12
            /\ m.reject_num * 100 < 40 * m.total
    THEN alpha + (2 * AlphaScale) \div 100
    ELSE alpha

\* variant: every window that does not tighten relaxes
NextAlphaNoBand(alpha, m) ==
    IF \/ m.p95_ttft_ms > 1400
       \/ m.sim_gc_freq * 10 > 18
       \/ m.reject_num * 100 > 50 * m.total
    THEN Max((65 * AlphaScale) \div 100, (alpha * 92) \div 100)
    ELSE Min(AlphaScale, alpha + (2 * AlphaScale) \div 100)

NextAlpha(alpha, m) ==
    IF \/ m.p95_ttft_ms > 1400
       \/ m.sim_gc_freq * 10 > 18
       \/ m.reject_num * 100 > 50 * m.total
    THEN Max((65 * AlphaScale) \div 100, (alpha * 92) \div 100)
    ELSE IF /\ m.p95_ttft_ms < 1150
            /\ m.sim_gc_freq * 10 < 12
            /\ m.reject_num * 100 < 40 * m.total
    THEN Min(AlphaScale, alpha + (2 * AlphaScale) \div 100)
    ELSE alpha

\* on_window(metrics)
OnWindow(p, m) ==
    IF p.kind = "Traditional" THEN p
    ELSE RebalanceBuckets([p EXCEPT !.alpha = NextAlpha(p.alpha, m)])

----------------------------------------------------------------------------
(* run_one (adaptive_bucket_ab)                                            *)

\* the locals of a tick loop before its first tick
LoopStart ==
    /\ queue = <<>>
    /\ inflight = <<>>
    /\ idx = 0
    /\ now = 0
    /\ pc = "tick"
    /\ cap = 0
    /\ total_inflight = 0
    /\ accepted = 0
    /\ rejected = 0
    /\ rejected_reason = <<>>
    /\ sec_cursor = 0
    /\ sec_accepted = 0
    /\ sec_rejected = 0
    /\ sec_burst = 0
    /\ sec_ratelimit = 0
    /\ sec_lat = <<>>
    /\ sec_ttft = <<>>
    /\ simulated_gc_counter = 0
    /\ young_heap = 0
    /\ per_sec = <<>>
    /\ window_tick = 0
    /\ probe = NoProbe

\* run_one(name, reqs, nodes, allocator, fixed_limit, timeout_sec,
\* update_window_sec): a budget that refills within the timeout and one that
\* does not
RunOneInit ==
    /\ driver = "run_one"
    /\ reqs \in ReqInputs
    /\ nodes \in NodeFactories
    /\ allocator \in {StaticBucketAllocator(600, 60000),
                      AdaptiveBucketAllocator(600, 60000),
                      AdaptiveBucketAllocator(120, 60000)}
    /\ params \in {[fixed_limit |-> f, timeout_sec |-> QueueTimeoutTicks,
                    update_window_sec |-> 1] : f \in {2, MaxReqs}}
    /\ controller = NoObject
    /\ policy = NoObject
    /\ LoopStart

\* allocator.record_arrival / record_accept / record_reject for every request
\* of `rs`, when the allocator is an AdaptiveBucketAllocator
RECURSIVE RecordEach(_, _, _)
RecordEach(a, rs, what) ==
    IF a.kind # "Adaptive" \/ rs = <<>> THEN a
    ELSE RecordEach(IF what = "arrival"
                    THEN RecordArrival(a, TotalTokens(Head(rs)), 1)
                    ELSE IF what = "accept"
                    THEN RecordAccept(a, TotalTokens(Head(rs)), 1)
                    ELSE RecordReject(a, TotalTokens(Head(rs)), 1),
                    Tail(rs), what)

\* Top of the loop body: arrivals, completions, queue timeouts.
RunOneTickBegin ==
    /\ driver = "run_one"
    /\ pc = "tick"
    /\ now <= EndTime
    /\ now < MaxNow
    /\ LET i2 == ArrivedIdx(reqs, idx, now)
           arrived == SubSeq(reqs, idx + 1, i2)
           q1 == queue \o arrived
           done == Completed(inflight, now)
           ns1 == FinishAll(nodes, done)
           k == ExpiredCount(q1, now, params.timeout_sec)
       IN  /\ idx' = i2
           /\ queue' = SubSeq(q1, k + 1, Len(q1))
           /\ allocator' = RecordEach(RecordEach(allocator, arrived, "arrival"),
                                      SubSeq(q1, 1, k), "reject")
           /\ nodes' = ns1
           /\ inflight' = StillInflight(inflight, now)
           /\ sec_lat' = sec_lat \o LatenciesOf(done)
           /\ sec_ttft' = sec_ttft \o TtftsOf(done)
           /\ rejected' = rejected + k
           /\ sec_rejected' = sec_rejected + k
           /\ rejected_reason' = BumpTimes(rejected_reason, "QUEUE_TIMEOUT", k)
           /\ total_inflight' = SumInflight(ns1)
    /\ pc' = "admit"
    /\ UNCHANGED <<driver, params, reqs, controller, policy, now, cap,
                   accepted, sec_cursor, sec_accepted, sec_burst,
                   sec_ratelimit, simulated_gc_counter, young_heap, per_sec,
                   window_tick, probe>>

\* One iteration of `while queue and total_inflight < fixed_limit`.
RunOneAdmit ==
    /\ driver = "run_one"
    /\ pc = "admit"
    /\ AdmissionOpen(queue, total_inflight, params.fixed_limit)
    /\ \E sample \in Samples(nodes, Min(3, Len(nodes))) :
         LET req == Head(queue)
             tokens == TotalTokens(req)
             b == BucketOf(allocator.boundaries, tokens)
             a1 == AllocRefill(allocator, now)
             r == TryNodes(nodes, SortByInflight(sample, nodes), now, tokens,
                           params.fixed_limit, "CONCURRENCY")
         IN  IF ~BudgetOk(a1, b, tokens)
             THEN /\ allocator' = a1
                  /\ rejected_reason' = Bump(rejected_reason, "BUCKET_BUDGET")
                  /\ pc' = "rollover"
                  /\ UNCHANGED <<nodes, inflight, queue, accepted,
                                 sec_accepted, total_inflight, young_heap,
                                 simulated_gc_counter>>
             ELSE IF r.started # 0
             THEN /\ nodes' = r.nodes
                  /\ allocator' = RecordEach(Consume(a1, b, tokens), <<req>>,
                                             "accept")
                  /\ inflight' = Append(inflight,
                         Inflight(req, now, now + req.service_time_sec,
                                  r.started))
                  /\ queue' = Tail(queue)
                  /\ accepted' = accepted + 1
                  /\ sec_accepted' = sec_accepted + 1
                  /\ total_inflight' = total_inflight + 1
                  /\ young_heap' = HeapNext(young_heap, req)
                  /\ simulated_gc_counter' =
                         IF GcFires(young_heap, req)
                         THEN simulated_gc_counter + 1
                         ELSE simulated_gc_counter
                  /\ pc' = "admit"
                  /\ UNCHANGED rejected_reason
             ELSE /\ nodes' = r.nodes
                  /\ IF r.fail_reason \in {"RATE_RPM", "RATE_TPM", "BURST"}
                     THEN /\ rejected_reason' =
                                Bump(rejected_reason, r.fail_reason)
                          /\ allocator' = RecordEach(a1, <<req>>, "reject")
                     ELSE /\ allocator' = a1
                          /\ UNCHANGED rejected_reason
                  /\ pc' = "rollover"
                  /\ UNCHANGED <<inflight, queue, accepted, sec_accepted,
                                 total_inflight, young_heap,
                                 simulated_gc_counter>>
    /\ UNCHANGED <<driver, params, reqs, controller, policy, idx, now, cap,
                   rejected, sec_cursor, sec_rejected, sec_burst,
                   sec_ratelimit, sec_lat, sec_ttft, per_sec, window_tick,
                   probe>>

\* End of the loop body: the per-second rollover, the window end every
\* update_window_sec seconds, and now += dt.
RunOneTickEnd ==
    /\ driver = "run_one"
    /\ \/ pc = "rollover"
       \/ pc = "admit"
          /\ ~AdmissionOpen(queue, total_inflight, params.fixed_limit)
    /\ IF now >= (sec_cursor + 1) * TicksPerSec
       THEN /\ per_sec' = Append(per_sec,
                   [second |-> sec_cursor,
                    accepted |-> sec_accepted,
                    rejected |-> sec_rejected,
                    p95_ttft_ms |-> PercentileFloor(sec_ttft, 95),
                    p95_e2e_ms |-> PercentileFloor(sec_lat, 95),
                    sim_gc_freq |-> simulated_gc_counter])
            /\ sec_cursor' = sec_cursor + 1
            /\ sec_accepted' = 0
            /\ sec_rejected' = 0
            /\ simulated_gc_counter' = 0
            /\ sec_lat' = <<>>
            /\ sec_ttft' = <<>>
            /\ window_tick' = window_tick + 1
            /\ allocator' =
                   IF (window_tick + 1) % params.update_window_sec = 0
                   THEN OnWindowEnd(allocator) ELSE allocator
       ELSE UNCHANGED <<per_sec, sec_cursor, sec_accepted, sec_rejected,
                        simulated_gc_counter, sec_lat, sec_ttft, window_tick,
                        allocator>>
    /\ now' = now + 1
    /\ pc' = "tick"
    /\ UNCHANGED <<driver, params, reqs, controller, policy, nodes, queue,
                   inflight, idx, cap, total_inflight, accepted, rejected,
                   rejected_reason, sec_burst, sec_ratelimit, young_heap,
                   probe>>

----------------------------------------------------------------------------
(* run_engine (full_pipeline_vs_traditional)                               *)

\* run_engine(reqs, nodes, policy, timeout_sec, window_sec)
EngineInit ==
    /\ driver = "run_engine"
    /\ reqs \in ReqInputs
    /\ nodes \in NodeFactories
    /\ policy \in {TraditionalPolicy(2), TraditionalPolicy(MaxReqs),
                   FullPipelinePolicy(600, 60000, MaxReqs),
                   FullPipelinePolicy(120, 60000, 2)}
    /\ params = [timeout_sec |-> QueueTimeoutTicks, window_sec |-> 1]
    /\ controller = NoObject
    /\ allocator = NoObject
    /\ LoopStart

\* Top of the loop body: arrivals, completions, queue timeouts.
EngineTickBegin ==
    /\ driver = "run_engine"
    /\ pc = "tick"
    /\ now <= EndTime
    /\ now < MaxNow
    /\ LET i2 == ArrivedIdx(reqs, idx, now)
           q1 == queue \o SubSeq(reqs, idx + 1, i2)
           done == Completed(inflight, now)
           ns1 == FinishAll(nodes, done)
           k == ExpiredCount(q1, now, params.timeout_sec)
       IN  /\ idx' = i2
           /\ queue' = SubSeq(q1, k + 1, Len(q1))
           /\ nodes' = ns1
           /\ inflight' = StillInflight(inflight, now)
           /\ sec_lat' = sec_lat \o LatenciesOf(done)
           /\ sec_ttft' = sec_ttft \o TtftsOf(done)
           /\ rejected' = rejected + k
           /\ sec_rejected' = sec_rejected + k
           /\ rejected_reason' = BumpTimes(rejected_reason, "QUEUE_TIMEOUT", k)
           /\ total_inflight' = SumInflight(ns1)
    /\ pc' = "admit"
    /\ UNCHANGED <<driver, params, reqs, controller, allocator, policy, now,
                   cap, accepted, sec_cursor, sec_accepted, sec_burst,
                   sec_ratelimit, simulated_gc_counter, young_heap, per_sec,
                   window_tick, probe>>

\* reason[why] += 1 for every node that refused, in order
RECURSIVE BumpEach(_, _)
BumpEach(d, whys) ==
    IF whys = <<>> THEN d ELSE BumpEach(Bump(d, Head(whys)), Tail(whys))

\* One iteration of `while queue and total_inflight <
\* policy.allowed_concurrency()`.
EngineAdmit ==
    /\ driver = "run_engine"
    /\ pc = "admit"
    /\ AdmissionOpen(queue, total_inflight, policy.fixed_limit)
    /\ \E sample \in Samples(nodes, Min(3, Len(nodes))) :
         LET req == Head(queue)
             est_tokens == EstimateOf(policy, req)
             adm == Admit(EstimateTokens(policy, req, 1), now, est_tokens)
             r == TryNodes(nodes, SortByInflight(sample, nodes), now,
                           est_tokens, policy.fixed_limit, "")
         IN  IF ~adm.ok
             THEN /\ policy' = adm.policy
                  /\ rejected_reason' = Bump(rejected_reason, "BUDGET_BLOCK")
                  /\ pc' = "rollover"
                  /\ UNCHANGED <<nodes, inflight, queue, accepted,
                                 sec_accepted, total_inflight, young_heap,
                                 simulated_gc_counter>>
             ELSE /\ nodes' = r.nodes
                  /\ rejected_reason' = BumpEach(rejected_reason, r.failed)
                  /\ policy' = OnResult(adm.policy, req, r.started # 0)
                  /\ IF r.started # 0
                     THEN /\ inflight' = Append(inflight,
                                 Inflight(req, now,
                                          now + req.service_time_sec,
                                          r.started))
                          /\ queue' = Tail(queue)
                          /\ accepted' = accepted + 1
                          /\ sec_accepted' = sec_accepted + 1
                          /\ total_inflight' = total_inflight + 1
                          /\ young_heap' = HeapNext(young_heap, req)
                          /\ simulated_gc_counter' =
                                 IF GcFires(young_heap, req)
                                 THEN simulated_gc_counter + 1
                                 ELSE simulated_gc_counter
                          /\ pc' = "admit"
                     ELSE /\ pc' = "rollover"
                          /\ UNCHANGED <<inflight, queue, accepted,
                                         sec_accepted, total_inflight,
                                         young_heap, simulated_gc_counter>>
    /\ UNCHANGED <<driver, params, reqs, controller, allocator, idx, now,
                   cap, rejected, sec_cursor, sec_rejected, sec_burst,
                   sec_ratelimit, sec_lat, sec_ttft, per_sec, window_tick,
                   probe>>

\* End of the loop body: the per-second rollover, on_window when tick is a
\* multiple of window_sec, and now += dt.
EngineTickEnd ==
    /\ driver = "run_engine"
    /\ \/ pc = "rollover"
       \/ pc = "admit"
          /\ ~AdmissionOpen(queue, total_inflight, policy.fixed_limit)
    /\ IF now >= (sec_cursor + 1) * TicksPerSec
       THEN /\ policy' =
                   IF window_tick % params.window_sec = 0
                   THEN OnWindow(policy,
                            PolicyMetrics(PercentileFloor(sec_ttft, 95),
                                          simulated_gc_counter, sec_rejected,
                                          sec_accepted))
                   ELSE policy
            /\ per_sec' = Append(per_sec,
                   [second |-> sec_cursor,
                    accepted |-> sec_accepted,
                    rejected |-> sec_rejected,
                    p95_ttft_ms |-> PercentileFloor(sec_ttft, 95),
                    p95_e2e_ms |-> PercentileFloor(sec_lat, 95),
                    sim_gc_freq |-> simulated_gc_counter])
            /\ sec_cursor' = sec_cursor + 1
            /\ window_tick' = window_tick + 1
            /\ sec_accepted' = 0
            /\ sec_rejected' = 0
            /\ simulated_gc_counter' = 0
            /\ sec_lat' = <<>>
            /\ sec_ttft' = <<>>
       ELSE UNCHANGED <<policy, per_sec, sec_cursor, window_tick,
                        sec_accepted, sec_rejected, simulated_gc_counter,
                        sec_lat, sec_ttft>>
    /\ now' = now + 1
    /\ pc' = "tick"
    /\ UNCHANGED <<driver, params, reqs, controller, allocator, nodes, queue,
                   inflight, idx, cap, total_inflight, accepted, rejected,
                   rejected_reason, sec_burst, sec_ratelimit, young_heap,
                   probe>>

----------------------------------------------------------------------------
(* run_sim of the two sweeps (request_size_sweep_pool_vs_traditional,      *)
(* long_ratio_sweep_pool_vs_traditional).  The two files define the same   *)
(* Node class and the same pool state; `driver` tells the loops apart.     *)

\* size of the fleet build_nodes() returns (range(6) in the source)
NumNodes == 2

\* Node.__init__
Node(rpm, tpm, max_concurrency) ==
    [rpm_limit |-> rpm, tpm_limit |-> tpm, max_concurrency |-> max_concurrency,
     rpm_tokens |-> rpm * TokenScale, tpm_tokens |-> tpm * TokenScale,
     inflight |-> 0, last_refill |-> 0]

\* build_nodes(), node i of the source at index i + 1
BuildNodes ==
    [k \in 1..NumNodes |->
        Node(1150 + (k - 1) * 80, 520000 + (k - 1) * 45000, 14 + (k - 1))]

\* the fleet once earlier traffic has spent the request budgets
\* (try_start takes 1.0 from rpm_tokens per start)
SpentNodes == [k \in 1..NumNodes |-> [BuildNodes[k] EXCEPT !.rpm_tokens = 0]]

\* Node.refill(now)
NodeRefill(n, t) ==
    LET dt == Max(0, t - n.last_refill)
    IN  IF dt <= 0 THEN n
        ELSE [n EXCEPT
                !.rpm_tokens = Min(n.rpm_limit * TokenScale,
                                   n.rpm_tokens + dt * n.rpm_limit),
                !.tpm_tokens = Min(n.tpm_limit * TokenScale,
                                   n.tpm_tokens + dt * n.tpm_limit),
                !.last_refill = t]

\* Node.try_start(now, tokens, cap): the node it leaves and its result
TryStart(n, t, tokens, limit) ==
    LET r == NodeRefill(n, t)
    IN  IF \/ r.inflight >= Min(r.max_concurrency, limit)
           \/ r.rpm_tokens < TokenScale
           \/ r.tpm_tokens < tokens * TokenScale
        THEN [node |-> r, ok |-> FALSE]
        ELSE [node |-> [r EXCEPT
                          !.rpm_tokens = r.rpm_tokens - TokenScale,
                          !.tpm_tokens = r.tpm_tokens - tokens * TokenScale,
                          !.inflight = r.inflight + 1],
              ok |-> TRUE]

\* for node in sample: if node.try_start(...): ... break
RECURSIVE TryStartFirst(_, _, _, _, _)
TryStartFirst(ns, order, t, tokens, limit) ==
    IF order = <<>> THEN [nodes |-> ns, started |-> 0]
    ELSE LET i == Head(order)
             r == TryStart(ns[i], t, tokens, limit)
         IN  IF r.ok
             THEN [nodes |-> [ns EXCEPT ![i] = r.node], started |-> i]
             ELSE TryStartFirst([ns EXCEPT ![i] = r.node], Tail(order), t,
                                tokens, limit)

\* TraditionalPolicy.__init__ of either sweep
SweepTraditionalPolicy(limit) == [kind |-> "Traditional", cap |-> limit]

\* PoolPolicy.__init__ (request-size sweep)
PoolPolicy(core, max_size) ==
    [kind |-> "Pool", core |-> core, max_size |-> max_size,
     allocated |-> core, active |-> 0, idle |-> [i \in 1..core |-> i - 1]]

\* PoolFirstPolicy.__init__ (long-ratio sweep)
PoolFirstPolicy(core, max_size) ==
    [PoolPolicy(core, max_size) EXCEPT !.kind = "PoolFirst"]

\* capacity()
Capacity(p) == IF p.kind = "Traditional" THEN p.cap ELSE p.max_size

\* queue_timeout() of the long-ratio policies; the literal 1.2 of the
\* request-size loop
QueueTimeout(d, p) ==
    IF d = "request_size_run_sim" THEN (12 * TicksPerSec) \div 10
    ELSE IF p.kind = "Traditional" THEN (8 * TicksPerSec) \div 10
    ELSE (14 * TicksPerSec) \div 10

\* variant of the acquisition that grows the pool without the test
\* allocated < max_size
AcquireSlotGreedy(p) ==
    IF p.kind = "Traditional" THEN [policy |-> p, ok |-> TRUE]
    ELSE IF p.idle # <<>>
    THEN [policy |-> [p EXCEPT !.idle = Tail(p.idle),
                               !.active = p.active + 1],
          ok |-> TRUE]
    ELSE [policy |-> [p EXCEPT !.allocated = p.allocated + 1,
                               !.active = p.active + 1],
          ok |-> TRUE]

\* PoolPolicy.on_admit / PoolFirstPolicy.acquire_slot; TraditionalPolicy
\* admits (request-size) or is not asked (long-ratio)
AcquireSlot(p) ==
    IF p.kind = "Traditional" THEN [policy |-> p, ok |-> TRUE]
    ELSE IF p.idle # <<>>
    THEN [policy |-> [p EXCEPT !.idle = Tail(p.idle),
                               !.active = p.active + 1],
          ok |-> TRUE]
    ELSE IF p.allocated < p.max_size
    THEN [policy |-> [p EXCEPT !.allocated = p.allocated + 1,
                               !.active = p.active + 1],
          ok |-> TRUE]
    ELSE [policy |-> p, ok |-> FALSE]

\* PoolPolicy.on_release / PoolFirstPolicy.release_slot
ReleaseSlot(p) ==
    IF p.kind # "Traditional" /\ p.active > 0
    THEN [p EXCEPT !.active = p.active - 1, !.idle = Append(p.idle, 1)]
    ELSE p

\* variant: completed flights do not release their slot
ReleaseTimesNone(p, k) == p

\* on_release / release_slot once per completed flight
RECURSIVE ReleaseTimes(_, _)
ReleaseTimes(p, k) ==
    IF k = 0 THEN p ELSE ReleaseTimes(ReleaseSlot(p), k - 1)

\* variant: strict FIFO under every policy
SelectRequestHead(p, q) == 1

\* variant: the short-first lookahead under every policy
SelectRequestShortFirst(p, q) ==
    IF \E i \in DOMAIN q : ~q[i].is_long
    THEN CHOOSE i \in DOMAIN q :
             ~q[i].is_long /\ \A j \in 1..(i - 1) : q[j].is_long
    ELSE 1

\* the index in `q` of the request the loop tries: queue[0], or
\* PoolFirstPolicy.select_request(queue)
SelectRequest(p, q) ==
    IF p.kind = "PoolFirst" /\ \E i \in DOMAIN q : ~q[i].is_long
    THEN CHOOSE i \in DOMAIN q :
             ~q[i].is_long /\ \A j \in 1..(i - 1) : q[j].is_long
    ELSE 1

\* young_heap after an admission of the sweep loops, before the GC test
SweepHeapAfter(d, p, heap, req) ==
    HeapAfter(heap, req)
    + (IF d = "long_ratio_run_sim" /\ p.kind = "Traditional" /\ req.is_long
       THEN req.stream_chunks * 700 ELSE 0)

\* int(young_heap * f): 0.35 (request-size), 0.30 / 0.38 (long-ratio)
SweepHeapCut(d, p, heap) ==
    IF d = "request_size_run_sim" THEN (heap * 35) \div 100
    ELSE IF p.kind = "Traditional" THEN (heap * 30) \div 100
    ELSE (heap * 38) \div 100

\* run_sim(reqs, policy) and run_sim(reqs, policy, is_pool); is_pool is
\* True exactly with a PoolFirstPolicy
SweepInit ==
    /\ \/ /\ driver = "request_size_run_sim"
          /\ policy \in {SweepTraditionalPolicy(1),
                         SweepTraditionalPolicy(MaxReqs),
                         PoolPolicy(1, 2), PoolPolicy(0, 1)}
       \/ /\ driver = "long_ratio_run_sim"
          /\ policy \in {SweepTraditionalPolicy(1),
                         SweepTraditionalPolicy(MaxReqs),
                         PoolFirstPolicy(1, 2), PoolFirstPolicy(0, 1)}
    /\ reqs \in ReqInputs
    /\ nodes \in {BuildNodes, SpentNodes}
    /\ params = NoObject
    /\ controller = NoObject
    /\ allocator = NoObject
    /\ LoopStart

\* Top of the loop body: arrivals, completions, queue timeouts.
SweepTickBegin ==
    /\ driver \in {"request_size_run_sim", "long_ratio_run_sim"}
    /\ pc = "tick"
    /\ now <= EndTime
    /\ now < MaxNow
    /\ LET i2 == ArrivedIdx(reqs, idx, now)
           q1 == queue \o SubSeq(reqs, idx + 1, i2)
           done == Completed(inflight, now)
           ns1 == FinishAll(nodes, done)
           k == ExpiredCount(q1, now, QueueTimeout(driver, policy))
       IN  /\ idx' = i2
           /\ queue' = SubSeq(q1, k + 1, Len(q1))
           /\ nodes' = ns1
           /\ policy' = ReleaseTimes(policy, Len(done))
           /\ inflight' = StillInflight(inflight, now)
           /\ sec_lat' = sec_lat \o LatenciesOf(done)
           /\ sec_ttft' = sec_ttft \o TtftsOf(done)
           /\ rejected' = rejected + k
           /\ total_inflight' = SumInflight(ns1)
    /\ pc' = "admit"
    /\ UNCHANGED <<driver, params, reqs, controller, allocator, now, cap,
                   accepted, rejected_reason, sec_cursor, sec_accepted,
                   sec_rejected, sec_burst, sec_ratelimit,
                   simulated_gc_counter, young_heap, per_sec, window_tick,
                   probe>>

\* One iteration of `while queue and total_inflight < policy.capacity()`.
SweepAdmit ==
    /\ driver \in {"request_size_run_sim", "long_ratio_run_sim"}
    /\ pc = "admit"
    /\ AdmissionOpen(queue, total_inflight, Capacity(policy))
    /\ \E sample \in Samples(nodes,
            Min(IF driver = "request_size_run_sim" THEN 3
                ELSE IF policy.kind = "PoolFirst" THEN 4 ELSE 2,
                Len(nodes))) :
         LET at == SelectRequest(policy, queue)
             req == queue[at]
             slot == AcquireSlot(policy)
             r == TryStartFirst(nodes, SortByInflight(sample, nodes), now,
                                TotalTokens(req), Capacity(policy))
             heap == SweepHeapAfter(driver, policy, young_heap, req)
         IN  IF ~slot.ok
             THEN /\ pc' = "rollover"
                  /\ UNCHANGED <<policy, nodes, inflight, queue, accepted,
                                 total_inflight, young_heap,
                                 simulated_gc_counter>>
             ELSE IF r.started # 0
             THEN /\ policy' = slot.policy
                  /\ nodes' = r.nodes
                  /\ queue' = SubSeq(queue, 1, at - 1)
                              \o SubSeq(queue, at + 1, Len(queue))
                  /\ accepted' = accepted + 1
                  /\ total_inflight' = total_inflight + 1
                  /\ inflight' = Append(inflight,
                         Inflight(req, now, now + req.service_time_sec,
                                  r.started))
                  /\ young_heap' = IF heap > GcThreshold
                                   THEN SweepHeapCut(driver, policy, heap)
                                   ELSE heap
                  /\ simulated_gc_counter' =
                         IF heap > GcThreshold
                         THEN simulated_gc_counter + 1
                         ELSE simulated_gc_counter
                  /\ pc' = "admit"
             ELSE /\ policy' = ReleaseSlot(slot.policy)
                  /\ nodes' = r.nodes
                  /\ pc' = "rollover"
                  /\ UNCHANGED <<inflight, queue, accepted, total_inflight,
                                 young_heap, simulated_gc_counter>>
    /\ UNCHANGED <<driver, params, reqs, controller, allocator, idx, now,
                   cap, rejected, rejected_reason, sec_cursor, sec_accepted,
                   sec_rejected, sec_burst, sec_ratelimit, sec_lat, sec_ttft,
                   per_sec, window_tick, probe>>

\* End of the loop body: the GC sample on whole seconds (abs(now % 1.0) <
\* dt / 2) and now += dt.
SweepTickEnd ==
    /\ driver \in {"request_size_run_sim", "long_ratio_run_sim"}
    /\ \/ pc = "rollover"
       \/ pc = "admit"
          /\ ~AdmissionOpen(queue, total_inflight, Capacity(policy))
    /\ IF now % TicksPerSec = 0
       THEN /\ per_sec' = Append(per_sec, simulated_gc_counter)
            /\ simulated_gc_counter' = 0
       ELSE UNCHANGED <<per_sec, simulated_gc_counter>>
    /\ now' = now + 1
    /\ pc' = "tick"
    /\ UNCHANGED <<driver, params, reqs, controller, allocator, policy,
                   nodes, queue, inflight, idx, cap, total_inflight, accepted,
                   rejected, rejected_reason, sec_cursor, sec_accepted,
                   sec_rejected, sec_burst, sec_ratelimit, sec_lat, sec_ttft,
                   young_heap, window_tick, probe>>

Init == SimInit \/ RunOneInit \/ EngineInit \/ SweepInit

Next ==
    \/ TickBegin \/ AdmitAttempt \/ TickEnd
    \/ RunOneTickBegin \/ RunOneAdmit \/ RunOneTickEnd
    \/ EngineTickBegin \/ EngineAdmit \/ EngineTickEnd
    \/ SweepTickBegin \/ SweepAdmit \/ SweepTickEnd

Spec == Init /\ [][Next]_vars

----------------------------------------------------------------------------
(* The bucket objects on their own: an allocator or a full-pipeline policy *)
(* whose methods are called in any order.  `probe` holds the last call and *)
(* the number of calls made.                                               *)

\* calls made on the object in one behaviour
MaxCalls == 4

\* total token counts of the requests offered: one per initial bucket
TokenValues == {100, 1000, 4000}

\* token histories, as the record_arrival / estimate_tokens calls that built
\* them: empty, one short of HistMinLen, a mix, all large, all tiny, full
HistInputs ==
    {<<>>,
     <<[v |-> 100, n |-> HistMinLen - 1]>>,
     <<[v |-> 100, n |-> 120], [v |-> 1000, n |-> 50], [v |-> 4000, n |-> 30]>>,
     <<[v |-> 5000, n |-> HistMinLen]>>,
     <<[v |-> 1, n |-> HistMinLen]>>,
     <<[v |-> 100, n |-> HistMaxLen]>>}

\* record_arrival for every entry of the history `h`
RECURSIVE AfterArrivals(_, _)
AfterArrivals(a, h) ==
    IF h = <<>> THEN a
    ELSE AfterArrivals(RecordArrival(a, Head(h).v, Head(h).n), Tail(h))

AllocInputs ==
    {StaticBucketAllocator(6000, 600000)}
    \cup {AfterArrivals(AdaptiveBucketAllocator(6000, 600000), h) :
             h \in HistInputs}

\* requests whose estimates fall in the first, second and last bucket
PolicyReqs ==
    {Request(1, 0, 40, 60, 4, 1, 3), Request(2, 0, 300, 700, 20, 1, 3),
     Request(3, 0, 1000, 3000, 90, 1, 3)}

\* estimate_tokens(r), r.n times, for every entry of `calls`
RECURSIVE AfterEstimates(_, _)
AfterEstimates(p, calls) ==
    IF calls = <<>> THEN p
    ELSE AfterEstimates(EstimateTokens(p, Head(calls).req, Head(calls).n),
                        Tail(calls))

EstimateInputs ==
    {<<>>,
     <<[req |-> Request(1, 0, 40, 60, 4, 1, 3), n |-> HistMinLen - 1]>>,
     <<[req |-> Request(1, 0, 40, 60, 4, 1, 3), n |-> 120],
       [req |-> Request(2, 0, 300, 700, 20, 1, 3), n |-> 50],
       [req |-> Request(3, 0, 1000, 3000, 90, 1, 3), n |-> 30]>>,
     <<[req |-> Request(3, 0, 1000, 3000, 90, 1, 3), n |-> HistMinLen]>>,
     <<[req |-> Request(1, 0, 1, 0, 4, 1, 3), n |-> HistMinLen]>>}

PolicyInputs ==
    {AfterEstimates(FullPipelinePolicy(6000, 600000, 4), c) :
        c \in EstimateInputs}

\* window metrics: calm, slow first tokens, many rejections, in between
PolicyMetricsInputs ==
    {PolicyMetrics(0, 0, 0, 10), PolicyMetrics(1500, 0, 0, 10),
     PolicyMetrics(0, 0, 6, 4), PolicyMetrics(1200, 0, 0, 10)}

\* instants of the admit calls, in ticks: at once, and three seconds later
AdmitTimes == {0, 3 * TicksPerSec}

AllocInit ==
    /\ SimIdle("bucket")
    /\ nodes = <<>>
    /\ controller = NoObject
    /\ \/ allocator \in AllocInputs /\ policy = NoObject
       \/ allocator = NoObject /\ policy \in PolicyInputs
    /\ probe = [op |-> "none", calls |-> 0]

Called(op) == [op |-> op, calls |-> probe.calls + 1]

\* allocator.record_arrival(tokens)
AllocRecordArrival ==
    /\ allocator.kind = "Adaptive"
    /\ probe.calls < MaxCalls
    /\ \E tokens \in TokenValues :
           allocator' = RecordArrival(allocator, tokens, 1)
    /\ probe' = Called("record_arrival")
    /\ UNCHANGED <<simVars, controller, policy>>

\* allocator.record_accept(tokens)
AllocRecordAccept ==
    /\ allocator.kind = "Adaptive"
    /\ probe.calls < MaxCalls
    /\ \E tokens \in TokenValues :
           allocator' = RecordAccept(allocator, tokens, 1)
    /\ probe' = Called("record_accept")
    /\ UNCHANGED <<simVars, controller, policy>>

\* allocator.record_reject(tokens)
AllocRecordReject ==
    /\ allocator.kind = "Adaptive"
    /\ probe.calls < MaxCalls
    /\ \E tokens \in TokenValues :
           allocator' = RecordReject(allocator, tokens, 1)
    /\ probe' = Called("record_reject")
    /\ UNCHANGED <<simVars, controller, policy>>

\* allocator.on_window_end()
AllocOnWindowEnd ==
    /\ allocator.kind \in {"Static", "Adaptive"}
    /\ probe.calls < MaxCalls
    /\ allocator' = OnWindowEnd(allocator)
    /\ probe' = Called("on_window_end")
    /\ UNCHANGED <<simVars, controller, policy>>

\* policy.estimate_tokens(req)
PolicyEstimateTokens ==
    /\ policy.kind = "FullPipeline"
    /\ probe.calls < MaxCalls
    /\ \E req \in PolicyReqs : policy' = EstimateTokens(policy, req, 1)
    /\ probe' = Called("estimate_tokens")
    /\ UNCHANGED <<simVars, controller, allocator>>

\* policy.admit(now, est_tokens) for the estimate of some request
PolicyAdmit ==
    /\ policy.kind = "FullPipeline"
    /\ probe.calls < MaxCalls
    /\ \E req \in PolicyReqs, t \in AdmitTimes :
           /\ t >= policy.last_refill
           /\ policy' = Admit(policy, t, EstimateOf(policy, req)).policy
    /\ probe' = Called("admit")
    /\ UNCHANGED <<simVars, controller, allocator>>

\* policy.on_result(req, True)
PolicyOnResult ==
    /\ policy.kind = "FullPipeline"
    /\ probe.calls < MaxCalls
    /\ \E req \in PolicyReqs : policy' = OnResult(policy, req, TRUE)
    /\ probe' = Called("on_result")
    /\ UNCHANGED <<simVars, controller, allocator>>

\* policy.on_window(metrics)
PolicyOnWindow ==
    /\ policy.kind = "FullPipeline"
    /\ probe.calls < MaxCalls
    /\ \E m \in PolicyMetricsInputs : policy' = OnWindow(policy, m)
    /\ probe' = Called("on_window")
    /\ UNCHANGED <<simVars, controller, allocator>>

AllocNext ==
    \/ AllocRecordArrival
    \/ AllocRecordAccept
    \/ AllocRecordReject
    \/ AllocOnWindowEnd
    \/ PolicyEstimateTokens
    \/ PolicyAdmit
    \/ PolicyOnResult
    \/ PolicyOnWindow

SpecAlloc == AllocInit /\ [][AllocNext]_vars

----------------------------------------------------------------------------
(* A node on its own: can_start called at arbitrary instants, followed by  *)
(* start when it returns True (as every driver does), and finish.          *)

\* nodes with small budgets; burst limits 1.0 and 1.5 per second
NodeInputs ==
    {NodeState(1, rpm, tpm, phys, b2) :
        rpm \in {1, 2}, tpm \in {2, 100}, phys \in {1, 2}, b2 \in {2, 3}}

\* the instants of a call: the same tick, exactly one second later, after
\* the burst window has passed, and after a full minute
CallDelays == {0, TicksPerSec, TicksPerSec + 1, 60 * TicksPerSec}

NodeInit ==
    /\ SimIdle("node")
    /\ \E n \in NodeInputs : nodes = <<n>>
    /\ controller = NoObject
    /\ allocator = NoObject
    /\ policy = NoObject
    /\ probe = [op |-> "none", calls |-> 0, starts |-> <<>>]

\* ok, reason = node.can_start(t, cost, allowed); if ok: node.start(t, cost)
NodeCanStart ==
    /\ driver = "node"
    /\ nodes # <<>>
    /\ probe.calls < MaxCalls
    /\ \E d \in CallDelays, cost \in {1, 3}, allowed \in 0..2 :
         LET r == CanStart(nodes[1], now + d, cost, allowed)
         IN  /\ nodes' = <<IF r.ok THEN Start(r.node, now + d, cost)
                           ELSE r.node>>
             /\ now' = now + d
             /\ probe' = [op |-> "can_start", calls |-> probe.calls + 1,
                          before |-> nodes[1], token_cost |-> cost,
                          allowed_concurrency |-> allowed,
                          ok |-> r.ok, reason |-> r.reason,
                          starts |-> IF r.ok
                                     THEN Append(probe.starts, now + d)
                                     ELSE probe.starts]
    /\ UNCHANGED <<driver, params, reqs, queue, inflight, idx, pc, cap,
                   total_inflight, accepted, rejected, rejected_reason,
                   sec_cursor, sec_accepted, sec_rejected, sec_burst,
                   sec_ratelimit, sec_lat, sec_ttft, simulated_gc_counter,
                   young_heap, per_sec, window_tick, controller, allocator,
                   policy>>

\* node.finish()
NodeFinish ==
    /\ driver = "node"
    /\ nodes # <<>>
    /\ probe.calls < MaxCalls
    /\ nodes' = <<Finish(nodes[1])>>
    /\ probe' = [op |-> "finish", calls |-> probe.calls + 1,
                 starts |-> probe.starts]
    /\ UNCHANGED <<driver, params, reqs, queue, inflight, idx, now, pc, cap,
                   total_inflight, accepted, rejected, rejected_reason,
                   sec_cursor, sec_accepted, sec_rejected, sec_burst,
                   sec_ratelimit, sec_lat, sec_ttft, simulated_gc_counter,
                   young_heap, per_sec, window_tick, controller, allocator,
                   policy>>

NodeNext == NodeCanStart \/ NodeFinish

SpecNode == NodeInit /\ [][NodeNext]_vars

----------------------------------------------------------------------------
(* The controllers on their own: update() called with arbitrary metrics *)

\* largest max_c of the controllers explored on their own
MaxC == 5

\* AimdParams / params dicts with min_c <= max_c; init_c and ssthresh are
\* free (the constructors take them as given)
CtlParams ==
    {[min_c |-> lo, max_c |-> hi, init_c |-> init, ssthresh |-> ss,
      decrease_pct |-> dec, cooldown_windows |-> cd,
      rate_limit_permille |-> 50, burst_permille |-> 50,
      p95_threshold_ms |-> 2200, gc_threshold_x10 |-> 20,
      slow_start_pct |-> 150, ai_step |-> step] :
        lo \in 1..2, hi \in {2, MaxC}, init \in {1, MaxC + 1},
        ss \in {3}, dec \in {50, 75}, cd \in {1, 2},
        step \in {CwndScale, CwndScale + CwndScale \div 2}}

CtlControllers ==
    {AimdController(lo, hi, init) :
        lo \in 1..2, hi \in {2, MaxC}, init \in 0..(MaxC + 1)}
    \cup {TunableAimdController(p) : p \in CtlParams}
    \cup {TunedAimdController(p) : p \in CtlParams}
    \cup {FixedController(MaxC)}

\* window metrics: no signal, and each of the four signals on its own
MetricsInputs ==
    {Metrics(0, 0, 10, 0, 0), Metrics(1, 0, 10, 0, 0),
     Metrics(0, 1, 10, 0, 0), Metrics(0, 0, 10, 2201, 0),
     Metrics(0, 0, 10, 0, 5)}

CtlInit ==
    /\ SimIdle("controller")
    /\ nodes = <<>>
    /\ controller \in CtlControllers
    /\ allocator = NoObject
    /\ policy = NoObject
    /\ probe = NoProbe

\* controller.update(second, m); the probe keeps the metrics of the call
\* and whether any update so far took the congested branch
CtlUpdateWith(m) ==
    /\ controller' = ControllerUpdate(controller, m)
    /\ probe' = [op |-> "update", metrics |-> m,
                 congested |->
                     \/ probe.op = "update" /\ probe.congested
                     \/ /\ controller.kind # "Fixed"
                        /\ controller.cooldown = 0
                        /\ Congested(controller, m)]
    /\ UNCHANGED <<simVars, allocator, policy>>

CtlUpdate == \E m \in MetricsInputs : CtlUpdateWith(m)

CtlNext == CtlUpdate

SpecCtl == CtlInit /\ [][CtlNext]_vars

\* the controller is updated once per window for as long as the run lasts:
\* an update with calm metrics that would change the state is not put off
\* forever (updates that signal congestion may or may not occur)
SpecCtlLive ==
    CtlInit /\ [][CtlNext]_vars /\ WF_vars(CtlUpdateWith(Metrics(0, 0, 10, 0, 0)))

----------------------------------------------------------------------------
(* run_simulation on any list a caller can pass: sorted by arrival, not    *)
(* sorted, or empty.                                                       *)

SortedByArrival(rs) ==
    \A i \in 1..(Len(rs) - 1) : rs[i].arrival_ts <= rs[i + 1].arrival_ts

\* lists in decreasing arrival order, and one with only its first request
\* out of place
UnsortedReqs ==
    {[i \in 1..MaxReqs |-> ShortReq(i, (MaxReqs - i) * gap)] :
        gap \in {1, 30}}
    \cup {[i \in 1..MaxReqs |-> ShortReq(i, IF i = 1 THEN 30 ELSE i - 2)]}

InputReqs ==
    {<<>>} \cup UnsortedReqs
    \cup {[i \in 1..MaxReqs |-> ShortReq(i, (i - 1) * gap)] : gap \in {0, 30}}

\* run_simulation up to its loop; max() of an empty list raises ValueError
\* at `end_time = max(r.arrival_ts for r in reqs) + 20`
InputInit ==
    /\ driver = "run_simulation"
    /\ params = NoObject
    /\ reqs \in InputReqs
    /\ nodes \in NodeFactories
    /\ controller \in {FixedController(2), AimdController(1, MaxReqs, MaxReqs)}
    /\ allocator = NoObject
    /\ policy = NoObject
    /\ pc = IF reqs = <<>> THEN "ValueError" ELSE "tick"
    /\ window_tick = 0
    /\ queue = <<>>
    /\ inflight = <<>>
    /\ idx = 0
    /\ now = 0
    /\ cap = 0
    /\ total_inflight = 0
    /\ accepted = 0
    /\ rejected = 0
    /\ rejected_reason = <<>>
    /\ sec_cursor = 0
    /\ sec_accepted = 0
    /\ sec_rejected = 0
    /\ sec_burst = 0
    /\ sec_ratelimit = 0
    /\ sec_lat = <<>>
    /\ sec_ttft = <<>>
    /\ simulated_gc_counter = 0
    /\ young_heap = 0
    /\ per_sec = <<>>
    /\ probe = NoProbe

InputNext == TickBegin \/ AdmitAttempt \/ TickEnd

SpecInput == InputInit /\ [][InputNext]_vars

----------------------------------------------------------------------------
(* Two executions of run_simulation in one process, as run_ab_test makes   *)
(* them, here with the same requests, the same node factory and an         *)
(* identically configured Fixed controller.  random.sample draws from the  *)
(* module-level generator of `random`, which run_simulation neither seeds  *)
(* nor restores: the second execution draws from wherever the first left   *)
(* the generator, so its samples are again any the generator can produce.  *)
(* An execution is followed up to the horizon MaxNow.                      *)

\* node_factory() called again: the same configuration, fresh state
FreshNodes(ns) ==
    [i \in DOMAIN ns |->
        NodeState(ns[i].node_id, ns[i].rpm_limit, ns[i].tpm_limit,
                  ns[i].max_physical_concurrency, ns[i].burst_rps_limit_x2)]

RunsInit ==
    /\ SimInit
    /\ controller.kind = "Fixed"
    /\ \E gap \in {0, 1} : \A i \in DOMAIN reqs :
           reqs[i].arrival_ts = (i - 1) * gap

\* an execution has reached the horizon: keep what it returned so far
\* under `tag` and enter run_simulation again with controller `c`
EnterAgain(c, tag) ==
    /\ driver = "run_simulation"
    /\ pc = "tick"
    /\ now = MaxNow
    /\ probe = NoProbe
    /\ probe' = [op |-> tag, accepted |-> accepted, rejected |-> rejected,
                 timeseries |-> per_sec,
                 resolved |-> (queue = <<>> /\ idx = Len(reqs))]
    /\ nodes' = FreshNodes(nodes)
    /\ controller' = c
    /\ queue' = <<>>
    /\ inflight' = <<>>
    /\ idx' = 0
    /\ now' = 0
    /\ cap' = 0
    /\ total_inflight' = 0
    /\ accepted' = 0
    /\ rejected' = 0
    /\ rejected_reason' = <<>>
    /\ sec_cursor' = 0
    /\ sec_accepted' = 0
    /\ sec_rejected' = 0
    /\ sec_burst' = 0
    /\ sec_ratelimit' = 0
    /\ sec_lat' = <<>>
    /\ sec_ttft' = <<>>
    /\ simulated_gc_counter' = 0
    /\ young_heap' = 0
    /\ per_sec' = <<>>
    /\ UNCHANGED <<driver, params, reqs, allocator, policy, pc, window_tick>>

\* the same call once more
RunAgain == EnterAgain(FixedController(controller.limit), "first_run")

RunsNext == TickBegin \/ AdmitAttempt \/ TickEnd \/ RunAgain

SpecRuns == RunsInit /\ [][RunsNext]_vars

\* run_ab_test scaled down: the Fixed run at the fleet limit, then the AIMD
\* run on the same requests with that limit as max_c and a lower init_c
ABInit ==
    /\ RunsInit
    /\ controller = FixedController(MaxReqs)

RunAimd == EnterAgain(AimdController(1, MaxReqs, 2), "fixed_run")

ABNext == TickBegin \/ AdmitAttempt \/ TickEnd \/ RunAimd

SpecAB == ABInit /\ [][ABNext]_vars

----------------------------------------------------------------------------
(* FullPipelinePolicy.on_window alone, on arbitrary metrics *)

\* on_window calls followed
MaxWindows == 8

\* metrics on, between and beyond the thresholds of on_window
AlphaMetricsInputs ==
    {PolicyMetrics(ttft, gc, rej, 10 - rej) :
        ttft \in {0, 1150, 1400, 1500}, gc \in {0, 2}, rej \in {0, 4, 5, 6}}

AlphaInit ==
    /\ SimIdle("on_window")
    /\ nodes = <<>>
    /\ controller = NoObject
    /\ allocator = NoObject
    /\ policy = FullPipelinePolicy(6000, 600000, 4)
    /\ probe = [op |-> "none", calls |-> 0]

\* policy.on_window(metrics)
AlphaOnWindow ==
    /\ probe.calls < MaxWindows
    /\ \E m \in AlphaMetricsInputs :
           /\ policy' = OnWindow(policy, m)
           /\ probe' = [op |-> "on_window", calls |-> probe.calls + 1,
                        metrics |-> m, alpha |-> policy.alpha]
    /\ UNCHANGED <<simVars, controller, allocator>>

AlphaNext == AlphaOnWindow

SpecAlpha == AlphaInit /\ [][AlphaNext]_vars

----------------------------------------------------------------------------
(* The boundaries of a fresh AdaptiveBucketAllocator over re-balance       *)
(* windows, on a fixed token history.                                      *)

\* samples in the history
HistorySamples == 1000

\* re-balance windows followed
ConvergeWindows == 10

\* histories of HistorySamples sizes: 40% small, 35% medium, the rest
\* large; and a single size throughout
ConvergeHists ==
    {<<[v |-> lo, n |-> 400], [v |-> mid, n |-> 350],
       [v |-> hi, n |-> HistorySamples - 750]>> :
        lo \in {40, 300, 600}, mid \in {1200, 2000}, hi \in {3800, 4000, 8000}}
    \cup {<<[v |-> c, n |-> HistorySamples]>> : c \in {1000, 4000}}

\* sorted(hist)[ceil(p/100 * n) - 1]: the nearest-rank p-th percentile
TruePercentile(h, p) ==
    HistKth(h, ((p * HistLen(h) + 99) \div 100) - 1)

\* every boundary within 15% of the percentile it tracks
Within15(b, h) ==
    \A i \in 1..3 :
        LET q == TruePercentile(h, <<40, 75, 92>>[i])
            d == IF b[i] >= q THEN b[i] - q ELSE q - b[i]
        IN  d * 100 <= 15 * q

ConvergeInit ==
    /\ SimIdle("on_window_end")
    /\ nodes = <<>>
    /\ controller = NoObject
    /\ policy = NoObject
    /\ \E h \in ConvergeHists :
           allocator = AfterArrivals(AdaptiveBucketAllocator(6000, 600000), h)
    /\ probe = [op |-> "none", calls |-> 0,
                within |-> Within15(allocator.boundaries,
                                    allocator.token_hist)]

\* allocator.on_window_end()
ConvergeOnWindowEnd ==
    /\ probe.calls < ConvergeWindows
    /\ allocator' = OnWindowEnd(allocator)
    /\ probe' = [op |-> "on_window_end", calls |-> probe.calls + 1,
                 within |-> probe.within
                            \/ Within15(allocator'.boundaries,
                                        allocator'.token_hist)]
    /\ UNCHANGED <<simVars, controller, policy>>

ConvergeNext == ConvergeOnWindowEnd

SpecConverge == ConvergeInit /\ [][ConvergeNext]_vars

----------------------------------------------------------------------------
(* The pool policies on their own: on_admit / acquire_slot and on_release  *)
(* / release_slot called in any order.                                     *)

\* largest max_size of the pools explored on their own
MaxPool == 3

\* pools with 0 <= core <= max_size
PoolInit ==
    /\ SimIdle("pool")
    /\ nodes = <<>>
    /\ controller = NoObject
    /\ allocator = NoObject
    /\ \E max_size \in 1..MaxPool, core \in 0..MaxPool :
           /\ core <= max_size
           /\ policy \in {PoolPolicy(core, max_size),
                          PoolFirstPolicy(core, max_size)}
    /\ probe = NoProbe

\* policy.on_admit(req) / policy.acquire_slot()
PoolAcquire ==
    /\ policy' = AcquireSlot(policy).policy
    /\ probe' = [op |-> "acquire_slot", ok |-> AcquireSlot(policy).ok]
    /\ UNCHANGED <<simVars, controller, allocator>>

\* policy.on_release() / policy.release_slot()
PoolRelease ==
    /\ policy' = ReleaseSlot(policy)
    /\ probe' = [op |-> "release_slot", ok |-> TRUE]
    /\ UNCHANGED <<simVars, controller, allocator>>

PoolNext == PoolAcquire \/ PoolRelease

SpecPool == PoolInit /\ [][PoolNext]_vars

----------------------------------------------------------------------------
(* The selector on a fleet larger than its sample: run_simulation with a   *)
(* four-node fleet (k = 3) and short requests, next to the long-ratio     *)
(* loop (k = 2 or 4).                                                      *)

\* a fleet of four nodes, one of them with a token budget of a single
\* short request
SelectNodes ==
    <<NodeState(1, 3, 100, 1, 8), NodeState(2, 2, 2, 1, 8),
      NodeState(3, 3, 100, 1, 8), NodeState(4, 3, 100, 1, 8)>>

SelectInit ==
    \/ /\ driver = "run_simulation"
       /\ reqs \in {[i \in 1..MaxReqs |-> ShortReq(i, (i - 1) * gap)] :
                       gap \in {0, 1}}
       /\ nodes = SelectNodes
       /\ controller = FixedController(MaxReqs)
       /\ params = NoObject
       /\ allocator = NoObject
       /\ policy = NoObject
       /\ LoopStart
    \/ SweepInit /\ driver = "long_ratio_run_sim"

SelectNext ==
    \/ TickBegin \/ AdmitAttempt \/ TickEnd
    \/ SweepTickBegin \/ SweepAdmit \/ SweepTickEnd

SpecSelect == SelectInit /\ [][SelectNext]_vars

----------------------------------------------------------------------------
(* Boundary smoothing over many windows: the re-balance of an allocator or *)
(* a policy called again and again on a history that stays as it is, long  *)
(* enough for the first boundary to come down from 300 to its lower end.   *)

\* windows followed
SmoothWindows == 16

\* histories of HistMinLen equal samples, tiny to large, and a mix
SmoothHists ==
    {<<[v |-> t, n |-> HistMinLen]>> : t \in {1, 25, 100, 1000, 5000}}
    \cup {<<[v |-> 100, n |-> 120], [v |-> 1000, n |-> 50],
            [v |-> 4000, n |-> 30]>>}

SmoothInit ==
    /\ SimIdle("smoothing")
    /\ nodes = <<>>
    /\ controller = NoObject
    /\ \/ /\ \E h \in SmoothHists :
                 allocator =
                     AfterArrivals(AdaptiveBucketAllocator(6000, 600000), h)
          /\ policy = NoObject
       \/ /\ allocator = NoObject
          /\ policy \in PolicyInputs
    /\ probe = [op |-> "none", calls |-> 0]

\* allocator.on_window_end()
SmoothOnWindowEnd ==
    /\ allocator # NoObject
    /\ probe.calls < SmoothWindows
    /\ allocator' = OnWindowEnd(allocator)
    /\ probe' = Called("on_window_end")
    /\ UNCHANGED <<simVars, controller, policy>>

\* policy.on_window(metrics)
SmoothOnWindow ==
    /\ policy # NoObject
    /\ probe.calls < SmoothWindows
    /\ \E m \in PolicyMetricsInputs : policy' = OnWindow(policy, m)
    /\ probe' = Called("on_window")
    /\ UNCHANGED <<simVars, controller, allocator>>

SmoothNext == SmoothOnWindowEnd \/ SmoothOnWindow

SpecSmooth == SmoothInit /\ [][SmoothNext]_vars

----------------------------------------------------------------------------
(* The percentile functions on their own: each driver's percentile applied *)
(* to the same list of samples.                                            *)

\* longest list of samples
MaxSamples == 4

\* lists of up to MaxSamples samples with repeated and distinct values
SampleLists == UNION {[1..n -> 1..3] : n \in 0..MaxSamples}

PercentileRanks == {1, 25, 50, 51, 95, 99, 100}

PercentileInit ==
    /\ SimIdle("percentile")
    /\ nodes = <<>>
    /\ controller = NoObject
    /\ allocator = NoObject
    /\ policy = NoObject
    /\ \E v \in SampleLists, p \in PercentileRanks :
           probe = [op |-> "none", values |-> v, p |-> p]

\* percentile(values, p) of ab_test_simulator and of the other drivers
PercentileApply ==
    /\ driver = "percentile"
    /\ probe.op = "none"
    /\ probe' = [op |-> "percentile", values |-> probe.values, p |-> probe.p,
                 ab_test_simulator |-> Percentile(probe.values, probe.p),
                 adaptive_bucket_ab |-> PercentileFloor(probe.values, probe.p)]
    /\ UNCHANGED <<simVars, controller, allocator, policy>>

PercentileNext == PercentileApply

SpecPercentile == PercentileInit /\ [][PercentileNext]_vars

----------------------------------------------------------------------------
(* run_simulation followed to its return: the loop `while now <= end_time` *)
(* runs every tick, one after the other, until the condition fails.        *)

EndInit ==
    /\ driver = "run_simulation"
    /\ params = NoObject
    /\ reqs \in ReqInputs
    /\ nodes \in NodeFactories
    /\ controller \in {FixedController(2), AimdController(2, 3, 2)}
    /\ allocator = NoObject
    /\ policy = NoObject
    /\ window_tick = 0
    /\ queue = <<>>
    /\ inflight = <<>>
    /\ idx = 0
    /\ now = 0
    /\ pc = "tick"
    /\ cap = 0
    /\ total_inflight = 0
    /\ accepted = 0
    /\ rejected = 0
    /\ rejected_reason = <<>>
    /\ sec_cursor = 0
    /\ sec_accepted = 0
    /\ sec_rejected = 0
    /\ sec_burst = 0
    /\ sec_ratelimit = 0
    /\ sec_lat = <<>>
    /\ sec_ttft = <<>>
    /\ simulated_gc_counter = 0
    /\ young_heap = 0
    /\ per_sec = <<>>
    /\ probe = [op |-> "run_to_end"]

EndNext == TickBegin \/ AdmitAttempt \/ TickEnd

\* one iteration of `while queue and total_inflight < cap` seen from the
\* queue: the head is admitted and the loop goes on, or the loop breaks
AdmitIteration ==
    /\ driver = "run_simulation"
    /\ pc = "admit"
    /\ AdmissionOpen(queue, total_inflight, cap)
    /\ \/ queue' = Tail(queue) /\ pc' = "admit"
       \/ queue' = queue /\ pc' = "rollover"

\* the loop is sequential code: the tick body that can run does run, and
\* an iteration of the admission loop whose condition holds completes
SpecEnd ==
    /\ EndInit
    /\ [][EndNext]_vars
    /\ WF_vars(TickBegin \/ TickEnd)
    /\ WF_<<queue, pc>>(AdmitIteration)

----------------------------------------------------------------------------
(* Claims *)

\* C1 as stated: in every state every node has
\* inflight <= min(max_physical_concurrency, controller.current_limit()).
C1_InflightWithinCurrentLimit ==
    driver = "run_simulation" =>
        \A i \in DOMAIN nodes :
            nodes[i].inflight <= Min(nodes[i].max_physical_concurrency,
                                     CurrentLimit(controller))

C1_NodeBound ==
    \A i \in DOMAIN nodes :
        /\ nodes[i].inflight <= nodes[i].max_physical_concurrency
        /\ controller.kind = "Fixed" =>
               nodes[i].inflight <= CurrentLimit(controller)

\* C1 (amended): in run_simulation every node keeps inflight <=
\* max_physical_concurrency in every state, keeps inflight <= the limit when
\* the controller is Fixed, and every start on a node leaves that node with
\* inflight <= min(max_physical_concurrency, current_limit()) for the limit
\* in force at that start; the limit gates starts only, so an update that
\* lowers it does not bring the in-flight count down.
C1_StartRespectsLimit ==
    /\ (driver = "run_simulation" => C1_NodeBound)
    /\ [][driver = "run_simulation" =>
            /\ C1_NodeBound'
            /\ \A i \in DOMAIN nodes :
                   nodes'[i].inflight > nodes[i].inflight =>
                       nodes'[i].inflight <=
                           Min(nodes[i].max_physical_concurrency,
                               CurrentLimit(controller))]_vars

\* C1 witness: after a per-second update lowered the limit, a node holds more
\* in-flight requests than the controller's current limit.
C1_Witness ==
    /\ driver = "run_simulation"
    /\ per_sec # <<>>
    /\ \E i \in DOMAIN nodes :
           /\ nodes[i].inflight > CurrentLimit(controller)
           /\ nodes[i].inflight <= nodes[i].max_physical_concurrency

C2_SumBound ==
    /\ SumInflight(nodes) <= controller.max_c
    /\ controller.kind = "Fixed" =>
           SumInflight(nodes) <= CurrentLimit(controller)

C3_BudgetsWithinCapacity ==
    \A i \in DOMAIN nodes :
        /\ nodes[i].rpm_tokens <= nodes[i].rpm_limit * TokenScale
        /\ nodes[i].tpm_tokens <= nodes[i].tpm_limit * TokenScale

\* C3 witness: one refill at a later time found a full budget (the clamp
\* bound it) and another refilled a budget that had been consumed.
C3_Witness ==
    /\ driver = "run_simulation"
    /\ \E i \in DOMAIN nodes :
           /\ nodes[i].last_refill_ts > 0
           /\ nodes[i].rpm_tokens = nodes[i].rpm_limit * TokenScale
    /\ \E i \in DOMAIN nodes :
           /\ nodes[i].last_refill_ts > 0
           /\ nodes[i].inflight > 0
           /\ nodes[i].rpm_tokens < nodes[i].rpm_limit * TokenScale

BucketObject == IF allocator # NoObject THEN allocator ELSE policy

\* C5 (as stated): after every share re-balance every bucket share lies in
\* [0.10, 0.50].  The initial shares lie in the band, so this is the state
\* predicate that every share of the allocator or policy is in the band.
C5_SharesWithinBand ==
    BucketObject # NoObject =>
        \A i \in Buckets :
            /\ BucketObject.shares[i] >= ShareScale \div 10
            /\ BucketObject.shares[i] <= ShareScale \div 2

\* C6: the four bucket shares of an allocator or policy sum to 1 in every
\* reachable state.  In units of 1/ShareScale the four quotients of the
\* final renormalisation are each truncated, so the sum lies within 3 units
\* below ShareScale.
C6_SharesSumToOne ==
    BucketObject # NoObject =>
        /\ Sum4(BucketObject.shares) <= ShareScale
        /\ Sum4(BucketObject.shares) >= ShareScale - 3

\* an adaptive allocator whose shares a window end has moved
C6_Witness ==
    /\ probe.op = "on_window_end"
    /\ allocator.kind = "Adaptive"
    /\ allocator.shares # AdaptiveBucketAllocator(0, 0).shares

\* the triple a boundary re-estimation of the object `o` computes
CandidateBoundaries(o) ==
    IF o.kind = "Adaptive"
    THEN SmoothedBoundaries(o.boundaries, o.token_hist)
    ELSE IF o.kind = "FullPipeline"
    THEN PolicySmoothedBoundaries(o.boundaries, o.hist_tokens)
    ELSE o.boundaries

\* C7: the boundaries b1 < b2 < b3 are strictly increasing in every
\* reachable state, and every step either leaves all three unchanged or
\* replaces all three by the re-estimated triple.
C7_BoundariesAllOrNothing ==
    /\ (BucketObject # NoObject => Increasing(BucketObject.boundaries))
    /\ [][BucketObject' # NoObject =>
            /\ Increasing(BucketObject'.boundaries)
            /\ \/ BucketObject'.boundaries = BucketObject.boundaries
               \/ BucketObject'.boundaries = CandidateBoundaries(BucketObject)
         ]_vars

\* a window end that replaced the boundaries of an adaptive allocator
C7_Witness ==
    /\ probe.op = "on_window_end"
    /\ allocator.kind = "Adaptive"
    /\ allocator.boundaries # AdaptiveBucketAllocator(0, 0).boundaries

\* the checks that fail on node `n` for a call with `cost` and `allowed`
FailingChecks(n, cost, allowed) ==
    (IF n.inflight >= Min(n.max_physical_concurrency, allowed)
     THEN {"CONCURRENCY"} ELSE {})
    \cup (IF Len(n.starts_window) * 2 >= n.burst_rps_limit_x2
          THEN {"BURST"} ELSE {})
    \cup (IF n.rpm_tokens < TokenScale THEN {"RATE_RPM"} ELSE {})
    \cup (IF n.tpm_tokens < cost * TokenScale THEN {"RATE_TPM"} ELSE {})

C8_NoLookahead ==
    \/ driver \in {"run_simulation", "run_one", "run_engine",
                   "request_size_run_sim"}
    \/ driver = "long_ratio_run_sim" /\ policy.kind = "Traditional"

C9_Drivers == driver \in {"run_simulation", "run_one", "run_engine"}

C9_Timeout ==
    IF driver = "run_simulation" THEN QueueTimeoutTicks ELSE params.timeout_sec

C9_QueuedIds == {queue[j].id : j \in DOMAIN queue}

C9_InflightIds == {inflight[j].req.id : j \in DOMAIN inflight}

C9_Ledger ==
    /\ rejected = Count(rejected_reason, "QUEUE_TIMEOUT")
    /\ idx = Len(queue) + accepted + rejected
    /\ Cardinality(C9_QueuedIds) = Len(queue)
    /\ C9_QueuedIds \cap C9_InflightIds = {}
    /\ pc \in {"admit", "rollover"} =>
           \A j \in DOMAIN queue : now - queue[j].arrival_ts < C9_Timeout

\* C9: in run_simulation, run_one and run_engine a queued request whose wait
\* has passed the timeout is removed from the queue in the tick that finds
\* it, and that removal adds exactly one to `rejected` and one to the
\* QUEUE_TIMEOUT count; `rejected` and the QUEUE_TIMEOUT count stay equal,
\* every arrived request is queued, admitted or timed out (never two of
\* them), and a removed request neither returns to the queue nor is admitted
\* later.  A wait of `timeout` ticks exceeds the timeout in the code's float
\* arithmetic, since `now` accumulates above its nominal value.
C9_TimeoutCountedOnce ==
    /\ (C9_Drivers => C9_Ledger)
    /\ [][C9_Drivers =>
            LET q1 == queue \o SubSeq(reqs, idx + 1, idx')
                k == rejected' - rejected
            IN  /\ C9_Ledger'
                /\ idx' >= idx
                /\ k >= 0
                /\ Count(rejected_reason', "QUEUE_TIMEOUT")
                       = Count(rejected_reason, "QUEUE_TIMEOUT") + k
                /\ k > 0 =>
                       /\ queue' = SubSeq(q1, k + 1, Len(q1))
                       /\ \A j \in 1..k :
                              /\ now - q1[j].arrival_ts >= C9_Timeout
                              /\ q1[j].id \notin C9_QueuedIds'
                              /\ q1[j].id \notin C9_InflightIds'
                /\ (C9_QueuedIds' \cup C9_InflightIds') \subseteq
                       (C9_QueuedIds \cup C9_InflightIds
                        \cup {reqs[j].id : j \in (idx + 1)..idx'})]_vars

\* C9 witness: a request has timed out and been counted, another was
\* admitted, and later ticks have run with requests still arriving.
C9_Witness ==
    /\ C9_Drivers
    /\ rejected >= 1
    /\ Count(rejected_reason, "QUEUE_TIMEOUT") = rejected
    /\ accepted >= 1
    /\ now > C9_Timeout + 1
    /\ queue # <<>>

\* C10: can_start(now, cost, allowed) evaluates its checks on the node as
\* refill(now) leaves it; it returns (True, "") exactly when no check fails,
\* and otherwise (False, reason) where reason is the earliest failing check
\* in the order CONCURRENCY, BURST, RATE_RPM, RATE_TPM.
C10_FirstFailingCheck ==
    probe.op = "can_start" =>
        LET failing == FailingChecks(Refill(probe.before, now),
                                     probe.token_cost,
                                     probe.allowed_concurrency)
        IN  /\ probe.ok <=> failing = {}
            /\ probe.ok => probe.reason = ""
            /\ "CONCURRENCY" \in failing => probe.reason = "CONCURRENCY"
            /\ failing # {} /\ "CONCURRENCY" \notin failing /\ "BURST" \in failing
                   => probe.reason = "BURST"
            /\ failing # {} /\ failing \subseteq {"RATE_RPM", "RATE_TPM"}
                   /\ "RATE_RPM" \in failing
                   => probe.reason = "RATE_RPM"
            /\ failing = {"RATE_TPM"} => probe.reason = "RATE_TPM"

\* a call at a later instant than the last refill, on a node where at
\* least three checks fail at once after the refill
C10_Witness ==
    /\ probe.op = "can_start"
    /\ now > probe.before.last_refill_ts
    /\ Cardinality(FailingChecks(Refill(probe.before, now), probe.token_cost,
                                 probe.allowed_concurrency)) >= 3
    /\ ~probe.ok

C11_Sweep == driver \in {"request_size_run_sim", "long_ratio_run_sim"}

C11_Loop ==
    driver \in {"run_simulation", "run_one", "run_engine",
                "request_size_run_sim", "long_ratio_run_sim"}

\* the token cost and the concurrency ceiling the loop passes to the node
C11_Cost ==
    IF driver = "run_engine" THEN EstimateOf(policy, Head(queue))
    ELSE IF C11_Sweep THEN TotalTokens(queue[SelectRequest(policy, queue)])
    ELSE TotalTokens(Head(queue))

C11_Allowed ==
    IF driver = "run_simulation" THEN cap
    ELSE IF driver = "run_one" THEN params.fixed_limit
    ELSE IF driver = "run_engine" THEN policy.fixed_limit
    ELSE Capacity(policy)

C11_NonNegative ==
    \A i \in DOMAIN nodes :
        nodes[i].rpm_tokens >= 0 /\ nodes[i].tpm_tokens >= 0

\* C11: in every driver a node's start (1 request token and token_cost
\* tokens taken, inflight + 1) follows a check of that node at the same time
\* and with the same cost that found every condition satisfied, a step
\* without a start takes nothing from any budget, and rpm_tokens >= 0 and
\* tpm_tokens >= 0 hold for every node in every state.
C11_StartOnlyAfterCheck ==
    /\ (C11_Loop => C11_NonNegative)
    /\ [][C11_Loop =>
            /\ C11_NonNegative'
            /\ \A i \in DOMAIN nodes :
                 IF nodes'[i].inflight > nodes[i].inflight
                 THEN /\ pc = "admit"
                      /\ queue # <<>>
                      /\ nodes'[i].inflight = nodes[i].inflight + 1
                      /\ IF C11_Sweep
                         THEN LET r == NodeRefill(nodes[i], now)
                              IN  /\ r.inflight < Min(r.max_concurrency,
                                                      C11_Allowed)
                                  /\ r.rpm_tokens >= TokenScale
                                  /\ r.tpm_tokens >= C11_Cost * TokenScale
                                  /\ nodes'[i].rpm_tokens
                                         = r.rpm_tokens - TokenScale
                                  /\ nodes'[i].tpm_tokens
                                         = r.tpm_tokens
                                           - C11_Cost * TokenScale
                         ELSE LET r == Refill(nodes[i], now)
                              IN  /\ FailingChecks(r, C11_Cost, C11_Allowed)
                                         = {}
                                  /\ nodes'[i].rpm_tokens
                                         = r.rpm_tokens - TokenScale
                                  /\ nodes'[i].tpm_tokens
                                         = r.tpm_tokens
                                           - C11_Cost * TokenScale
                                  /\ nodes'[i].starts_window
                                         = Append(r.starts_window, now)
                 ELSE /\ nodes'[i].rpm_tokens >= nodes[i].rpm_tokens
                      /\ nodes'[i].tpm_tokens >= nodes[i].tpm_tokens]_vars

\* C11 witness: a node has started a request and stands with a budget too
\* small for another start, after an attempt that failed.
C11_Witness ==
    /\ driver \in {"run_simulation", "run_one", "run_engine"}
    /\ pc = "rollover"
    /\ queue # <<>>
    /\ \E i \in DOMAIN nodes :
           /\ nodes[i].inflight > 0
           /\ nodes[i].last_refill_ts = now
           /\ \/ nodes[i].rpm_tokens < TokenScale
              \/ nodes[i].tpm_tokens < TotalTokens(Head(queue)) * TokenScale

C12_Timeout ==
    IF driver = "run_simulation" THEN QueueTimeoutTicks
    ELSE IF C11_Sweep THEN QueueTimeout(driver, policy)
    ELSE params.timeout_sec

\* what the first three phases of a tick have established
C12_ReadyToAdmit ==
    /\ idx = Len(reqs) \/ reqs[idx + 1].arrival_ts > now
    /\ \A j \in DOMAIN inflight : inflight[j].finish_ts > now
    /\ \A i \in DOMAIN nodes :
           nodes[i].inflight
               = Cardinality({j \in DOMAIN inflight :
                                  inflight[j].node_id = i})
    /\ queue # <<>> => now - Head(queue).arrival_ts < C12_Timeout

\* C12: a tick runs in the order arrivals, completions, queue timeouts,
\* admission attempts, rollover.  When admission is attempted every request
\* that has arrived is enqueued, every in-flight request with finish_ts <=
\* now has left the in-flight list and given its node slot back, and no
\* expired request heads the queue; requests are rejected only before the
\* admission phase, admitted only in it, and the time-series record and the
\* time step come after it.
C12_TickOrder ==
    [][C11_Loop =>
        /\ pc = "tick" => pc' = "admit" /\ now' = now /\ C12_ReadyToAdmit'
        /\ pc = "admit" =>
              /\ C12_ReadyToAdmit
              /\ total_inflight = SumInflight(nodes)
              /\ rejected' = rejected
              /\ idx' = idx
              /\ now' = now => per_sec' = per_sec /\ pc' # "tick"
        /\ accepted' > accepted => pc = "admit" /\ now' = now
        /\ rejected' > rejected \/ idx' > idx \/ Len(inflight') < Len(inflight)
              => pc = "tick"
        /\ per_sec' # per_sec \/ now' # now =>
              /\ pc \in {"admit", "rollover"}
              /\ pc' = "tick"
              /\ now' = now + 1
              /\ accepted' = accepted]_vars

\* C12 witness: with the fleet at its limit, a request is admitted in the
\* very tick in which an earlier request finished (the finished request
\* arrived exactly one service time ago, so it finished at `now`).
C12_Witness ==
    /\ driver \in {"run_simulation", "run_engine"}
    /\ pc = "admit"
    /\ rejected = 0
    /\ total_inflight = C11_Allowed
    /\ \E j \in DOMAIN inflight : inflight[j].start_ts = now
    /\ \E k \in 1..idx :
           /\ reqs[k].id \notin C9_QueuedIds \cup C9_InflightIds
           /\ reqs[k].arrival_ts + reqs[k].service_time_sec = now

\* C13 (as stated): for an empty request list and for a list that is not
\* sorted by non-decreasing arrival_ts, run_simulation enqueues, admits and
\* rejects nothing and produces no time-series record.
C13_BadInputRejected ==
    (reqs = <<>> \/ ~SortedByArrival(reqs)) =>
        /\ idx = 0
        /\ queue = <<>>
        /\ accepted = 0
        /\ rejected = 0
        /\ per_sec = <<>>

\* C14 (as stated): every key of a driver's reason counters is one of
\* CONCURRENCY, BURST, RATE_RPM, RATE_TPM, QUEUE_TIMEOUT, BUDGET_BLOCK.
C14_ReasonsInClosedSet ==
    DOMAIN rejected_reason \subseteq
        {"CONCURRENCY", "BURST", "RATE_RPM", "RATE_TPM", "QUEUE_TIMEOUT",
         "BUDGET_BLOCK"}

\* C15 (as stated): a second execution of run_simulation with the same
\* requests, the same node configuration and an identically configured
\* controller produces the same time series as the first (each record holds
\* the second's accepted and rejected counts), whatever ran before it in
\* the process.
C15_SameTimeSeries ==
    (driver = "run_simulation" /\ probe # NoProbe) =>
        \A j \in DOMAIN per_sec :
            j \in DOMAIN probe.timeseries /\ per_sec[j] = probe.timeseries[j]

\* C16: the suppression multiplier alpha of the full-pipeline policy lies
\* in [0.65, 1.0] in every state, for every sequence of on_window calls.
C16_AlphaWithinBand ==
    policy.kind = "FullPipeline" =>
        /\ policy.alpha >= (65 * AlphaScale) \div 100
        /\ policy.alpha <= AlphaScale

\* C16 witness: on_window has tightened alpha down to the floor 0.65 from a
\* value whose 0.92 multiple lies below it.
C16_Witness ==
    /\ probe.op = "on_window"
    /\ policy.alpha = (65 * AlphaScale) \div 100
    /\ (probe.alpha * 92) \div 100 < (65 * AlphaScale) \div 100

C17_Over(m) ==
    \/ m.p95_ttft_ms > 1400
    \/ m.sim_gc_freq * 10 > 18
    \/ m.reject_num * 100 > 50 * m.total

C17_Calm(m) ==
    /\ m.p95_ttft_ms < 1150
    /\ m.sim_gc_freq * 10 < 12
    /\ m.reject_num * 100 < 40 * m.total

\* C17 as stated: at each on_window call alpha becomes max(0.65, 0.92 *
\* alpha) if a metric exceeds its threshold and min(1.0, alpha + 0.02) in
\* every other case.
C17_TightenOrRelax ==
    probe.op = "on_window" =>
        policy.alpha =
            IF C17_Over(probe.metrics)
            THEN Max((65 * AlphaScale) \div 100, (probe.alpha * 92) \div 100)
            ELSE Min(AlphaScale, probe.alpha + (2 * AlphaScale) \div 100)

\* C17 (amended): at each on_window call alpha becomes max(0.65, 0.92 *
\* alpha) if p95 TTFT > 1400 ms, GC frequency > 1.8 or reject rate > 0.50;
\* otherwise it becomes min(1.0, alpha + 0.02) if p95 TTFT < 1150 ms, GC
\* frequency < 1.2 and reject rate < 0.40; otherwise it keeps its value.
C17_TightenRelaxOrHold ==
    probe.op = "on_window" =>
        policy.alpha =
            IF C17_Over(probe.metrics)
            THEN Max((65 * AlphaScale) \div 100, (probe.alpha * 92) \div 100)
            ELSE IF C17_Calm(probe.metrics)
            THEN Min(AlphaScale, probe.alpha + (2 * AlphaScale) \div 100)
            ELSE probe.alpha

\* C17 witness: a window whose metrics lie between the two sets of
\* thresholds has left a tightened alpha as it was.
C17_Witness ==
    /\ probe.op = "on_window"
    /\ ~C17_Over(probe.metrics)
    /\ ~C17_Calm(probe.metrics)
    /\ probe.alpha < AlphaScale
    /\ policy.alpha = probe.alpha

\* C18 (as stated): from the initial boundaries [300, 1200, 3800] and a
\* fixed history of 1,000 token sizes, within 10 re-balance windows the
\* three boundaries are each within 15% of the history's 40th, 75th and
\* 92nd percentile.
C18_ConvergesInTenWindows ==
    (driver = "on_window_end" /\ probe.calls = ConvergeWindows) =>
        probe.within

C20_InRange(c) ==
    c.min_c * CwndScale <= c.cwnd /\ c.cwnd <= c.max_c * CwndScale

\* C20 (as stated): for each AIMD controller variant the raw window cwnd
\* lies in [min_c, max_c] in every state, right after construction and
\* after every update().
C20_CwndWithinBounds ==
    (driver = "controller" /\ controller.kind # "Fixed") =>
        C20_InRange(controller)

\* C21: while the cooldown set by a congested update is positive, an
\* update() call only decrements it by one and leaves cwnd and ssthresh
\* as they are, whatever the metrics; the update that finds the cooldown
\* at zero adapts again (a congested one re-arms the cooldown, a calm one
\* leaves cooldown and ssthresh alone).
C21_CooldownHolds ==
    [][controller.kind # "Fixed" /\ probe'.op = "update" =>
          IF controller.cooldown > 0
          THEN controller' =
                   [controller EXCEPT !.cooldown = controller.cooldown - 1]
          ELSE IF Congested(controller, probe'.metrics)
          THEN /\ controller'.cooldown = controller.cooldown_windows
               /\ controller'.cwnd = controller'.ssthresh
          ELSE /\ controller'.cooldown = 0
               /\ controller'.ssthresh = controller.ssthresh]_vars

\* C21 witness: the last update() ran inside a cooldown with metrics that
\* signal congestion, and the cooldown has decayed to zero.
C21_Witness ==
    /\ controller.kind # "Fixed"
    /\ probe.op = "update"
    /\ Congested(controller, probe.metrics)
    /\ controller.cooldown = 0
    /\ controller.cooldown_windows = 2
    /\ controller.cwnd = controller.ssthresh

\* C22: every invocation of the periodic re-balance
\* (AdaptiveBucketAllocator.on_window_end, FullPipelinePolicy.on_window)
\* ends with the four per-bucket accumulators (arrivals, accepts, tokens,
\* rejects) at zero in every bucket, whatever the size of the token
\* history.
C22_AccumulatorsReset ==
    /\ probe.op = "on_window_end" /\ allocator.kind = "Adaptive" =>
           /\ allocator.win_arrival = Zero4
           /\ allocator.win_accepted = Zero4
           /\ allocator.win_tokens = Zero4
           /\ allocator.win_reject = Zero4
    /\ probe.op = "on_window" /\ policy.kind = "FullPipeline" =>
           /\ policy.win_arrival = Zero4
           /\ policy.win_accept = Zero4
           /\ policy.win_tokens = Zero4
           /\ policy.win_reject = Zero4

\* C23: pool acquisition reuses an idle slot when one exists (allocated
\* unchanged), otherwise grows allocated by exactly one only if
\* allocated < max_size, otherwise fails and changes nothing; allocated
\* never exceeds max_size and active never exceeds allocated, for every
\* sequence of acquire / release calls.
C23_PoolBounds ==
    /\ policy.allocated <= policy.max_size
    /\ policy.active <= policy.allocated

C24_Threshold(c) ==
    IF c.kind = "Aimd"
    THEN Max(c.min_c, IntOf(MulPct(c.cwnd, c.decrease_pct))) * CwndScale
    ELSE Max(c.min_c * CwndScale, MulPct(c.cwnd, c.decrease_pct))

C24_MultiplicativeDecrease ==
    [][/\ controller.kind # "Fixed"
       /\ probe'.op = "update"
       /\ controller.cooldown = 0
       /\ Congested(controller, probe'.metrics)
       => /\ controller'.ssthresh = C24_Threshold(controller)
          /\ controller'.cwnd = controller'.ssthresh
          /\ controller'.cooldown = controller.cooldown_windows
          /\ controller'.cwnd <= controller.cwnd]_vars

\* C25: an update() that finds cooldown = 0 and metrics that are not
\* congested sets the window to min(max_c, cwnd * slow_start_factor) when
\* cwnd < ssthresh and to min(max_c, cwnd + ai_step) otherwise; threshold
\* and cooldown are unchanged and the window never decreases in this step.
C25_Growth(c) ==
    IF c.cwnd < c.ssthresh
    THEN Min(c.max_c * CwndScale, MulPct(c.cwnd, c.slow_start_pct))
    ELSE Min(c.max_c * CwndScale, c.cwnd + c.ai_step)

C25_AdditiveIncrease ==
    [][/\ controller.kind # "Fixed"
       /\ probe'.op = "update"
       /\ controller.cooldown = 0
       /\ ~Congested(controller, probe'.metrics)
       => /\ controller'.cwnd = C25_Growth(controller)
          /\ controller'.ssthresh = controller.ssthresh
          /\ controller'.cooldown = controller.cooldown
          /\ controller'.cwnd >= controller.cwnd]_vars

\* the size of the sample the loop draws
C26_K ==
    Min(IF driver = "long_ratio_run_sim"
        THEN (IF policy.kind = "PoolFirst" THEN 4 ELSE 2)
        ELSE 3,
        Len(nodes))

\* the admission check of node i succeeds for the request tried now
C26_Passes(i) ==
    IF C11_Sweep
    THEN TryStart(nodes[i], now, C11_Cost, C11_Allowed).ok
    ELSE CanStart(nodes[i], now, C11_Cost, C11_Allowed).ok

\* the step gave up on the head request before any node was tried
C26_NoNodeTried ==
    \/ Count(rejected_reason', "BUCKET_BUDGET")
           > Count(rejected_reason, "BUCKET_BUDGET")
    \/ Count(rejected_reason', "BUDGET_BLOCK")
           > Count(rejected_reason, "BUDGET_BLOCK")
    \/ C11_Sweep /\ ~AcquireSlot(policy).ok

\* C26: an admission attempt takes k distinct nodes, tries them in
\* non-decreasing order of their in-flight count at sampling time and
\* starts the request on the first node whose check succeeds: the request
\* is started on at most one node, that node passes its check while the
\* sampled nodes with fewer requests in flight do not, and the request is
\* left unstarted only if the check fails on all k sampled nodes.
C26_LeastLoadedFirst ==
    [][C11_Loop /\ pc = "admit" =>
         LET started == {i \in DOMAIN nodes :
                            nodes'[i].inflight > nodes[i].inflight}
             samples == {S \in SUBSET DOMAIN nodes : Cardinality(S) = C26_K}
         IN  /\ Cardinality(started) <= 1
             /\ \A i \in started :
                    /\ nodes'[i].inflight = nodes[i].inflight + 1
                    /\ \E S \in samples :
                           /\ i \in S
                           /\ C26_Passes(i)
                           /\ \A j \in S :
                                  nodes[j].inflight < nodes[i].inflight
                                      => ~C26_Passes(j)
             /\ started = {} /\ pc' = "rollover" /\ ~C26_NoNodeTried =>
                    \E S \in samples : \A j \in S : ~C26_Passes(j)
      ]_vars

\* C26 witness: with four nodes and samples of three, three requests were
\* started on three different nodes and the attempt for the fourth found
\* no sampled node that would start it, while the node that was not
\* sampled is idle and passes the check.
C26_Witness ==
    /\ driver = "run_simulation"
    /\ Len(nodes) = 4
    /\ pc = "rollover"
    /\ queue # <<>>
    /\ Len(inflight) = 3
    /\ \E i \in DOMAIN nodes :
           /\ nodes[i].inflight = 0
           /\ CanStart(nodes[i], now, TotalTokens(Head(queue)), cap).ok

\* C27: under the Pool-First policy the request taken for an admission is
\* the earliest-arrived non-long request of the queue, or the queue head
\* if every queued request is long: a long request is admitted only when
\* no non-long request is queued, and a non-long request only when every
\* request queued ahead of it is long.
C27_ShortFirst ==
    [][/\ driver = "long_ratio_run_sim"
       /\ policy.kind = "PoolFirst"
       /\ accepted' = accepted + 1
       => LET r == inflight'[Len(inflight')].req
          IN  IF \E i \in DOMAIN queue : ~queue[i].is_long
              THEN /\ ~r.is_long
                   /\ \E i \in DOMAIN queue :
                          /\ queue[i] = r
                          /\ \A j \in 1..(i - 1) : queue[j].is_long
                          /\ queue' = SubSeq(queue, 1, i - 1)
                                       \o SubSeq(queue, i + 1, Len(queue))
              ELSE /\ r = Head(queue)
                   /\ queue' = Tail(queue)]_vars

\* C27 witness: a non-long request is in flight under Pool-First while a
\* long request that arrived before it is still at the head of the queue.
C27_Witness ==
    /\ driver = "long_ratio_run_sim"
    /\ policy.kind = "PoolFirst"
    /\ queue # <<>>
    /\ Head(queue).is_long
    /\ \E k \in DOMAIN inflight :
           /\ ~inflight[k].req.is_long
           /\ inflight[k].req.id > Head(queue).id
           /\ inflight[k].req.arrival_ts >= Head(queue).arrival_ts

\* the targets of the three boundaries: p40, max(p40 + 64, p75),
\* max(p75 + 256, p92) of the token history of the object `o`
C28_Targets(o) ==
    LET h == IF o.kind = "Adaptive" THEN o.token_hist ELSE o.hist_tokens
        p40 == HistPercentile(h, 40)
        p75 == HistPercentile(h, 75)
        p92 == HistPercentile(h, 92)
    IN  <<p40, Max(p40 + 64, p75), Max(p75 + 256, p92)>>

\* int(0.7 * old + 0.3 * target) brought into [lo, old + int(0.15 * old)]
C28_Clamped(old, target, lo) ==
    Max(lo, Min(old + (old * 15) \div 100, (7 * old + 3 * target) \div 10))

C28_Within15(old, new) ==
    /\ (new - old) * 100 <= 15 * old
    /\ (old - new) * 100 <= 15 * old

\* C28 as stated: in one boundary re-estimation each boundary that changes
\* moves to the integer value of 0.7 * old + 0.3 * target clamped to
\* old - int(0.15 * old) .. old + int(0.15 * old), and no boundary moves by
\* more than 15% of its previous value in a single window.
C28_SmoothedWithin15 ==
    [][BucketObject' # NoObject =>
         LET old == BucketObject.boundaries
             new == BucketObject'.boundaries
             tgt == C28_Targets(BucketObject)
         IN  /\ \A i \in 1..3 : C28_Within15(old[i], new[i])
             /\ new # old =>
                    \A i \in 1..3 :
                        new[i] = C28_Clamped(old[i], tgt[i],
                                             old[i] - (old[i] * 15) \div 100)
      ]_vars

\* C28 (amended): as above, where the lower end of the clamp of
\* AdaptiveBucketAllocator is max(32, old - int(0.15 * old)): a boundary
\* of the allocator never goes below 32, whatever its target.
C28_SmoothedWithin15Floor32 ==
    [][BucketObject' # NoObject =>
         LET old == BucketObject.boundaries
             new == BucketObject'.boundaries
             tgt == C28_Targets(BucketObject)
         IN  /\ \A i \in 1..3 : C28_Within15(old[i], new[i])
             /\ \A i \in 1..3 :
                    BucketObject.kind = "Adaptive" => new[i] >= 32
             /\ new # old =>
                    \A i \in 1..3 :
                        new[i] = C28_Clamped(old[i], tgt[i],
                            IF BucketObject.kind = "Adaptive"
                            THEN Max(32, old[i] - (old[i] * 15) \div 100)
                            ELSE old[i] - (old[i] * 15) \div 100)
      ]_vars

\* C28 witness: a re-estimation has taken the first boundary of an
\* adaptive allocator down to 32 although its target is below 32, and the
\* other boundaries have moved as well.
C28_Witness ==
    /\ probe.op = "on_window_end"
    /\ allocator.kind = "Adaptive"
    /\ allocator.boundaries[1] = 32
    /\ C28_Targets(allocator)[1] < 32
    /\ allocator.boundaries[2] < 1200

\* C29: in one share re-balance every bucket's share after the re-balance,
\* the final renormalization included, differs from its share before the
\* re-balance by at most 0.05, for any window counters.
C29_ShareStepWithin5pp ==
    [][BucketObject' # NoObject =>
         \A i \in Buckets :
             /\ (BucketObject'.shares[i] - BucketObject.shares[i]) * 100
                    <= 5 * ShareScale
             /\ (BucketObject.shares[i] - BucketObject'.shares[i]) * 100
                    <= 5 * ShareScale]_vars

\* the bucket object of the loop as the refill at `now` leaves it, the
\* token amount charged for the head of the queue and its bucket
C30_Refilled ==
    IF driver = "run_one" THEN AllocRefill(allocator, now)
    ELSE PolicyRefill(policy, now)

C30_Tokens ==
    IF driver = "run_one" THEN TotalTokens(Head(queue))
    ELSE EstimateOf(policy, Head(queue))

C30_Bucket == BucketOf(C30_Refilled.boundaries, C30_Tokens)

\* C30: the bucket budget (1 RPM token and the request's token amount, in
\* the request's bucket) is decremented exactly once for every request
\* that is started on a node, and not at all for a request that passes
\* the bucket check but is refused by every sampled node, in run_one and
\* in run_engine.
C30_BudgetChargedOnStartOnly ==
    [][/\ \/ driver = "run_one"
          \/ driver = "run_engine" /\ policy.kind = "FullPipeline"
       /\ pc = "admit"
       /\ pc' # "tick"
       /\ ~C26_NoNodeTried
       => LET before == C30_Refilled
              after == IF driver = "run_one" THEN allocator' ELSE policy'
              b == C30_Bucket
          IN  IF accepted' = accepted + 1
              THEN /\ after.rpm_tokens =
                          [before.rpm_tokens EXCEPT ![b] = @ - TokenScale]
                   /\ after.tpm_tokens =
                          [before.tpm_tokens EXCEPT
                              ![b] = @ - C30_Tokens * TokenScale]
              ELSE /\ after.rpm_tokens = before.rpm_tokens
                   /\ after.tpm_tokens = before.tpm_tokens]_vars

\* the record run_simulation emits for the second that ends
C31_Record ==
    [second |-> sec_cursor,
     accepted |-> sec_accepted,
     rejected |-> sec_rejected,
     burst_reject |-> sec_burst,
     rate_reject |-> sec_ratelimit,
     p95_latency_ms |-> Percentile(sec_lat, 95),
     p95_ttft_ms |-> Percentile(sec_ttft, 95),
     controller_limit |-> CurrentLimit(controller'),
     sim_gc_freq |-> simulated_gc_counter]

C31_CountersZero ==
    /\ sec_accepted = 0
    /\ sec_rejected = 0
    /\ sec_burst = 0
    /\ sec_ratelimit = 0
    /\ sec_lat = <<>>
    /\ sec_ttft = <<>>
    /\ simulated_gc_counter = 0

\* the seconds that have elapsed at the last rollover test
C31_Elapsed == IF now = 0 THEN 0 ELSE (now - 1) \div TicksPerSec

\* C31: in run_simulation every whole second that elapses gets exactly one
\* time-series record: the records carry second = 0, 1, 2, ... in order and
\* without gaps, one for each elapsed second; a record is appended in the
\* same step that calls controller.update exactly once, the record's
\* controller_limit is the limit after that update, the controller changes
\* in no other step, and right after the record is emitted every per-second
\* counter is zero and both per-second latency lists are empty.
C31_OneRecordPerSecond ==
    /\ [](driver = "run_simulation"
          => /\ Len(per_sec) = sec_cursor
             /\ sec_cursor = C31_Elapsed
             /\ \A i \in 1..Len(per_sec) : per_sec[i].second = i - 1)
    /\ [][driver = "run_simulation"
          => IF now' = now + 1 /\ now >= (sec_cursor + 1) * TicksPerSec
             THEN /\ controller' =
                        ControllerUpdate(controller, WindowMetrics)
                  /\ per_sec' = Append(per_sec, C31_Record)
                  /\ C31_CountersZero'
             ELSE /\ controller' = controller
                  /\ per_sec' = per_sec]_vars

\* two records are out, the second update changed the limit, and samples
\* were in the window that was just closed
C31_Witness ==
    /\ driver = "run_simulation"
    /\ Len(per_sec) = 2
    /\ per_sec[2].accepted > 0
    /\ per_sec[2].controller_limit # per_sec[1].controller_limit
    /\ C31_CountersZero


\* the starts recorded on the node with start time in [t - 1 s, t]
C32_StartsIn(starts, t) ==
    {i \in DOMAIN starts : t - TicksPerSec <= starts[i] /\ starts[i] <= t}

\* the burst limit rounded up to an integer
C32_Ceiling(n) == (n.burst_rps_limit_x2 + 1) \div 2

\* the starts that preceded the last can_start call
C32_Earlier ==
    IF probe.ok THEN SubSeq(probe.starts, 1, Len(probe.starts) - 1)
    ELSE probe.starts

\* C32: on a node, the number of starts with start time in [t - 1 s, t]
\* never exceeds the burst limit rounded up, for every instant t; can_start
\* evicts the timestamps older than 1 s before its checks, so that the
\* window it tests holds exactly the starts of the last second, and it
\* refuses the start when the window holds at least burst_rps_limit
\* timestamps (with BURST whenever the concurrency check before it passes).
C32_BurstWindowBounded ==
    driver = "node"
    => /\ \A i \in DOMAIN probe.starts, o \in 0..TicksPerSec :
            Cardinality(C32_StartsIn(probe.starts, probe.starts[i] + o))
                <= C32_Ceiling(nodes[1])
       /\ probe.op = "can_start"
          => LET r == Refill(probe.before, now)
                 w == r.starts_window
                 full == Len(w) * 2 >= r.burst_rps_limit_x2
             IN  /\ \A k \in DOMAIN w : w[k] >= now - TicksPerSec
                 /\ Len(w) = Cardinality(C32_StartsIn(C32_Earlier, now))
                 /\ full => ~probe.ok
                 /\ full /\ r.inflight < Min(r.max_physical_concurrency,
                                             probe.allowed_concurrency)
                    => probe.reason = "BURST"

\* a start is refused with BURST exactly one second after the start that
\* fills the window of a node with burst limit 1.0
C32_Witness ==
    /\ driver = "node"
    /\ probe.op = "can_start"
    /\ probe.reason = "BURST"
    /\ nodes[1].burst_rps_limit_x2 = 2
    /\ Len(probe.starts) = 1
    /\ probe.starts[1] = now - TicksPerSec

\* the nearest-rank percentile: the smallest sample v such that at least
\* p percent of the samples are <= v
C33_NearestRank(values, p) ==
    LET n == Len(values)
        enough == {v \in Range(values) :
                     100 * Cardinality({i \in 1..n : values[i] <= v})
                         >= p * n}
    IN  CHOOSE v \in enough : \A u \in enough : v <= u

\* C33: every percentile implementation returns 0 for an empty list and the
\* nearest-rank percentile for a non-empty list and 0 < p <= 100, so the
\* implementation of ab_test_simulator and the one of the other drivers
\* return the same value for every input.
C33_PercentilesAgree ==
    driver = "percentile" /\ probe.op = "percentile"
    => LET want == IF probe.values = <<>> THEN 0
                   ELSE C33_NearestRank(probe.values, probe.p)
       IN  /\ probe.ab_test_simulator = want
           /\ probe.adaptive_bucket_ab = want

\* run_simulation has left its loop
C34_Returned == driver = "run_simulation" /\ pc = "tick" /\ now > EndTime

\* C34: every run of run_simulation terminates, and every input request is
\* resolved exactly one way, admitted once or rejected once by queue
\* timeout: arrived requests are queued, admitted or timed out and never
\* two of them, an admission moves the head of the queue into the in-flight
\* list, an admission attempt that fails leaves the queue and the counts as
\* they are, and when the loop is left the queue is empty, accepted +
\* rejected is the number of input requests and rejected is the
\* QUEUE_TIMEOUT count.
C34_EveryRequestResolvedOnce ==
    /\ [](driver = "run_simulation" => C9_Ledger)
    /\ [][driver = "run_simulation"
          => /\ pc = "admit" /\ pc' = "rollover"
                => /\ queue' = queue
                   /\ inflight' = inflight
                   /\ accepted' = accepted
                   /\ rejected' = rejected
                   /\ rejected_reason' = rejected_reason
             /\ accepted' # accepted
                => /\ accepted' = accepted + 1
                   /\ queue' = Tail(queue)
                   /\ Len(inflight') = Len(inflight) + 1
                   /\ inflight'[Len(inflight')].req = Head(queue)
                   /\ rejected' = rejected]_vars
    /\ <>[](/\ C34_Returned
            /\ queue = <<>>
            /\ idx = Len(reqs)
            /\ accepted + rejected = Len(reqs)
            /\ rejected = Count(rejected_reason, "QUEUE_TIMEOUT"))

\* a run has returned with admitted and timed-out requests, some of them
\* after failed admission attempts
C34_Witness ==
    /\ C34_Returned
    /\ accepted > 0
    /\ rejected > 0
    /\ \E i \in DOMAIN per_sec :
           per_sec[i].burst_reject + per_sec[i].rate_reject > 0

\* the queue timeout of the running driver and policy, in ticks
C35_Timeout ==
    IF C11_Sweep THEN QueueTimeout(driver, policy) ELSE C9_Timeout

\* C35: in every driver an admitted request has waited at most the queue
\* timeout of its policy (start - arrival <= timeout), also under Pool-First
\* where a request behind the head can be selected: the queue is in arrival
\* order and, once the timeouts of the tick are expired, no queued request
\* has waited longer than the timeout.
C35_AdmittedWithinTimeout ==
    C11_Loop
    => /\ \A j \in DOMAIN inflight :
            inflight[j].start_ts - inflight[j].req.arrival_ts <= C35_Timeout
       /\ \A j \in DOMAIN queue, k \in DOMAIN queue :
            j < k => queue[j].arrival_ts <= queue[k].arrival_ts
       /\ pc \in {"admit", "rollover"}
          => \A j \in DOMAIN queue : now - queue[j].arrival_ts <= C35_Timeout

\* under Pool-First a short request is in flight after a wait of at least
\* a second, admitted past a long request that is still at the head
C35_Witness ==
    /\ driver = "long_ratio_run_sim"
    /\ policy.kind = "PoolFirst"
    /\ queue # <<>>
    /\ Head(queue).is_long
    /\ \E j \in DOMAIN inflight :
           /\ ~inflight[j].req.is_long
           /\ inflight[j].req.arrival_ts >= Head(queue).arrival_ts
           /\ inflight[j].start_ts - inflight[j].req.arrival_ts >= TicksPerSec

\* the in-flight records of node i
C36_RecordsOn(fl, i) == {j \in DOMAIN fl : fl[j].node_id = i}

\* the in-flight records that the tick at time t completes
C36_Done(fl, t) == {j \in DOMAIN fl : fl[j].finish_ts <= t}

\* C36: in every driver each node's inflight counter equals the number of
\* in-flight records of that node, at every tick boundary and in between;
\* every admitted request has exactly one record, on the node that started
\* it, and is completed exactly once on that node: the tick that finds
\* finish <= now drops the record and lowers that node's counter by one for
\* each of its completed records, and no other step removes a record or
\* lowers a counter.  The counter is therefore never negative and finish()
\* is never called on a node whose counter is zero.
C36_InflightMatchesRecords ==
    /\ [](C11_Loop
          => /\ \A i \in DOMAIN nodes :
                  /\ nodes[i].inflight = Cardinality(C36_RecordsOn(inflight, i))
                  /\ nodes[i].inflight >= 0
             /\ Cardinality(C9_InflightIds) = Len(inflight)
             /\ \A j \in DOMAIN inflight : inflight[j].node_id \in DOMAIN nodes)
    /\ [][C11_Loop
          => IF pc = "tick"
             THEN /\ inflight' = SelectSeq(inflight,
                                    LAMBDA x : x.finish_ts > now)
                  /\ \A i \in DOMAIN nodes :
                       nodes'[i].inflight = nodes[i].inflight
                           - Cardinality(C36_RecordsOn(inflight, i)
                                         \cap C36_Done(inflight, now))
             ELSE /\ SubSeq(inflight', 1, Len(inflight)) = inflight
                  /\ Len(inflight') <= Len(inflight) + 1
                  /\ \A i \in DOMAIN nodes :
                       nodes'[i].inflight = nodes[i].inflight
                           + Cardinality(C36_RecordsOn(inflight', i))
                           - Cardinality(C36_RecordsOn(inflight, i))]_vars

\* two requests complete in one tick on one node while a third stays in
\* flight on another node
C36_Witness ==
    /\ C11_Loop
    /\ pc = "tick"
    /\ \E i \in DOMAIN nodes :
           Cardinality(C36_RecordsOn(inflight, i)
                       \cap C36_Done(inflight, now)) >= 2
    /\ \E j \in DOMAIN inflight : inflight[j].finish_ts > now

C37_Pool == policy.kind \in {"Pool", "PoolFirst"}

\* C37: in the pool drivers the pool satisfies len(idle) + active =
\* allocated in every state, at every tick boundary active equals the
\* number of requests in flight, and slot acquisition never fails inside
\* the admission loop, which runs only while total in-flight < max_size.
C37_PoolAccounting ==
    C11_Sweep /\ C37_Pool
    => /\ Len(policy.idle) + policy.active = policy.allocated
       /\ pc = "tick"
          => /\ policy.active = Len(inflight)
             /\ policy.active = SumInflight(nodes)
       /\ pc = "admit" /\ AdmissionOpen(queue, total_inflight,
                                        Capacity(policy))
          => /\ AcquireSlot(policy).ok
             /\ policy.active = total_inflight

\* the pool has grown beyond its core, a slot has come back to the idle
\* list, and requests are still in flight at a tick boundary
C37_Witness ==
    /\ C11_Sweep /\ C37_Pool
    /\ pc = "tick"
    /\ policy.allocated > policy.core
    /\ policy.idle # <<>>
    /\ policy.active >= 1

\* C38: for each AIMD controller variant, once an update has taken the
\* congested branch, window >= threshold holds in every later state, so
\* that no later update takes the slow-start branch (cwnd < ssthresh).
C38_NoSlowStartAfterCongestion ==
    driver = "controller" /\ probe.op = "update" /\ probe.congested
    => controller.cwnd >= controller.ssthresh

\* the metrics of the last update signal congestion to the controller
C39_Signal == Congested(controller, probe.metrics)

\* C39: for each AIMD controller variant with a positive initial window
\* (min <= max, slow-start factor > 1, additive step > 0): if from some
\* update on the window metrics never signal congestion, then
\* current_limit() eventually equals max_c and stays equal to it.
C39_CalmReachesMax ==
    (controller.kind # "Fixed" /\ controller.cwnd > 0)
    => (<>[](probe.op = "update" /\ ~C39_Signal)
        => <>[](CurrentLimit(controller) = controller.max_c))

\* after a congestion event the window has grown back to max_c under calm
\* metrics
C39_Witness ==
    /\ driver = "controller"
    /\ controller.kind # "Fixed"
    /\ probe.op = "update"
    /\ probe.congested
    /\ ~C39_Signal
    /\ controller.min_c < controller.max_c
    /\ controller.ssthresh < controller.cwnd
    /\ controller.cwnd = controller.max_c * CwndScale
    /\ CurrentLimit(controller) = controller.max_c

\* run_one under the adaptive allocator: one observation per arrival
C40_RunOne ==
    driver = "run_one" /\ allocator.kind = "Adaptive"
    => /\ HistLen(allocator.token_hist) = idx
       /\ Sum4(allocator.win_arrival) <= idx

\* run_engine under the full-pipeline policy: no more observations than
\* arrivals
C40_RunEngine ==
    driver = "run_engine" /\ policy.kind = "FullPipeline"
    => /\ HistLen(policy.hist_tokens) <= idx
       /\ Sum4(policy.win_arrival) <= idx

\* C40: each request contributes exactly one observation to the token
\* history and one count to a per-bucket arrival counter, however many
\* ticks it waits at the head of the queue: under the adaptive allocator in
\* run_one the history holds one observation per arrived request, and under
\* the full-pipeline policy in run_engine neither the history nor the
\* arrival counters of a window ever hold more entries than requests have
\* arrived.
C40_OneObservationPerRequest == C40_RunOne /\ C40_RunEngine

====
